---- MODULE Spec2Model ----
(***************************************************************************)
(* Model of the network subsystem of the RB3E StageKit bridge firmware:    *)
(* the WiFi connection manager (firmware/src/network.c), the RB3E codec    *)
(* (firmware/src/rb3e_protocol.h) and the boot / main loop retry policy    *)
(* (firmware/src/main.c).                                                  *)
(*                                                                         *)
(* The specifications share the variables:                                 *)
(*   Spec       the network module driven by an arbitrary caller of its    *)
(*              public API, with the driver and lwIP as environment;       *)
(*   SpecMain   the same module driven by main();                          *)
(*   SpecCodec  rb3e_parse_stagekit applied to bounded byte buffers;       *)
(*   SpecTel    Spec with the discovery / telemetry service;               *)
(*   SpecDhcp   the DHCP server (firmware/src/dhcpserver.c) under          *)
(*              arbitrary clients.                                         *)
(* SpecLive adds the fairness of the running firmware.                     *)
(***************************************************************************)
EXTENDS Integers, Sequences, FiniteSets, TLC

----------------------------------------------------------------------------
(* Program constants *)

WIFI_CONNECT_TIMEOUT_MS == 15000
WIFI_RETRY_DELAY_MS == 3000
WIFI_MAX_RETRIES == 3
WIFI_CHECK_INTERVAL_MS == 10000
DISCOVERY_TIMEOUT_MS == 30000
SAFETY_TIMEOUT_MS == 5000

CYW43_LINK_DOWN == 0
CYW43_LINK_JOIN == 1
CYW43_LINK_NOIP == 2
CYW43_LINK_UP == 3
CYW43_LINK_FAIL == -1
CYW43_LINK_NONET == -2
CYW43_LINK_BADAUTH == -3

RB3E_MAGIC_BYTE0 == 82
RB3E_MAGIC_BYTE1 == 66
RB3E_MAGIC_BYTE2 == 51
RB3E_MAGIC_BYTE3 == 69
RB3E_EVENT_STAGEKIT == 6
SK_ALL_OFF == 255

NETWORK_STATE_DISCONNECTED == "DISCONNECTED"
NETWORK_STATE_CONNECTING == "CONNECTING"
NETWORK_STATE_CONNECTED == "CONNECTED"
NETWORK_STATE_LISTENING == "LISTENING"
NETWORK_STATE_ERROR == "ERROR"

WIFI_FAIL_NONE == "NONE"
WIFI_FAIL_TIMEOUT == "TIMEOUT"
WIFI_FAIL_NONET == "NONET"
WIFI_FAIL_BADAUTH == "BADAUTH"
WIFI_FAIL_GENERAL == "GENERAL"

network_state_t ==
    {NETWORK_STATE_DISCONNECTED, NETWORK_STATE_CONNECTING, NETWORK_STATE_CONNECTED,
     NETWORK_STATE_LISTENING, NETWORK_STATE_ERROR}

wifi_fail_reason_t ==
    {WIFI_FAIL_NONE, WIFI_FAIL_TIMEOUT, WIFI_FAIL_NONET, WIFI_FAIL_BADAUTH, WIFI_FAIL_GENERAL}

LinkStatus ==
    {CYW43_LINK_DOWN, CYW43_LINK_JOIN, CYW43_LINK_NOIP, CYW43_LINK_UP,
     CYW43_LINK_FAIL, CYW43_LINK_NONET, CYW43_LINK_BADAUTH}

----------------------------------------------------------------------------
(* Bounds of the model *)

\* one model clock tick, in milliseconds
TickMs == 10000
\* saturation value of the statistics counters
MaxStat == 1
\* saturation value of the count of automatic attempts since the last success
MaxAttempts == 5
\* length of the longest byte buffer given to the decoder
MaxLen == 11
\* number of the last DHCP client; client 0 has the all-zero address
MaxMac == 5

ConnectTimeoutTicks == WIFI_CONNECT_TIMEOUT_MS \div TickMs
WifiCheckTicks == WIFI_CHECK_INTERVAL_MS \div TickMs
DiscoveryTimeoutTicks == DISCOVERY_TIMEOUT_MS \div TickMs
\* the largest value kept for a time difference of the safety timeout
SafetyAgeCap == SAFETY_TIMEOUT_MS \div TickMs + 2

Min(a, b) == IF a < b THEN a ELSE b

\* a uint32_t counter increment, saturated at the model bound
Incr_Wrap(n) == (n + 1) % (MaxStat + 1)

Incr(n) == Min(n + 1, MaxStat)

----------------------------------------------------------------------------
VARIABLES
    \* network.c static state
    net_state, wifi_fail_reason, udp_listener, udp_telemetry,
    packet_callback, service_callback, dashboard_discovered, dashboard_addr,
    discovery_age, net_stats,
    \* position of the network API call in progress, its timeout clock and result
    pc, waited, ret,
    \* radio driver and lwIP: link status, association, netif link flag,
    \* registered netif callbacks, bound UDP ports
    link, assoc, netif_link_up, link_cb_set, cmd_port_bound, tel_port_bound,
    \* observations of the call in progress: the API operation, watchdog
    \* feeds and service-callback invocations since the last link-status
    \* inspection, leave requests of the current connect call
    op, fed_since_inspect, svc_since_inspect, left_in_call,
    \* main.c: program position, boot attempt number, heartbeat flag, time
    \* since the last periodic WiFi check
    mainpc, attempt, wifi_is_connected, wifi_check_age,
    \* observations of the retry policy: automatic attempts issued since the
    \* last success, retry delay taken since the last failed boot attempt
    auto_attempts, retry_delayed,
    \* codec harness: buffer, position, result
    buf, cpc, parsed,
    \* telemetry: the station interface's address and netmask, the datagrams
    \* handed to udp_sendto by the network_send_telemetry call that has
    \* returned with the result of each (TRUE for ERR_OK) and whether its
    \* pbuf_alloc returned NULL, the sender of the latest discovery message
    \* received since
    \* the module has been Listening with a telemetry endpoint
    netif_ip4_addr, netif_ip4_netmask, tx, tx_err, pbuf_null, disc_from,
    \* dhcpserver.c: lease table, server object, bound server port; the
    \* request being handled and the reply sent for it; the index last
    \* OFFERed to the watched client and the index each client's ACK was
    \* built for, since the table was cleared
    leases, d, dhcp_port_bound, dhcp_msg, dhcp_reply, offered, acked,
    \* the datagram udp_telemetry_callback is handling, with its sender
    rx,
    \* whether the main loop is between cyw43_arch_lwip_begin and
    \* cyw43_arch_lwip_end, and the statement it executed last
    lwip_locked, lk_event,
    \* whether udp_telemetry_callback has recorded a peer since the call in
    \* progress was entered
    lk_refreshed,
    \* main.c: the command handed over by on_stagekit_packet, and the flag
    \* that lights were switched on
    stagekit_command_pending, pending_left_weight, pending_right_weight,
    lights_active,
    \* the statement the main loop is at, its locals left and right, and
    \* whether interrupts are disabled
    cmdpc, cmd_left, cmd_right, irq_off,
    \* now - last_packet_time in ticks, and the ticks passed since now was read
    since_packet, now_age,
    \* usb_stagekit_connected(), and the command given to the peripheral in
    \* this iteration
    usb_up, usb_out,
    \* the pair of the valid command packet received last, whether one was
    \* received since the flag was last cleared, and the pair that was the
    \* last one when the flag was cleared
    latest, unread, taken

netvars == <<net_state, wifi_fail_reason, udp_listener, udp_telemetry,
             packet_callback, service_callback, dashboard_discovered,
             dashboard_addr, discovery_age, net_stats>>
callvars == <<pc, waited, ret>>
drvvars == <<link, assoc, netif_link_up, link_cb_set, cmd_port_bound, tel_port_bound>>
obsvars == <<op, fed_since_inspect, svc_since_inspect, left_in_call>>
mainvars == <<mainpc, attempt, wifi_is_connected, wifi_check_age>>
policyvars == <<auto_attempts, retry_delayed>>
codecvars == <<buf, cpc, parsed>>
telvars == <<netif_ip4_addr, netif_ip4_netmask, tx, tx_err, pbuf_null, disc_from>>
dhcpvars == <<leases, d, dhcp_port_bound, dhcp_msg, dhcp_reply, offered, acked>>
discvars == <<rx>>
lockvars == <<lwip_locked, lk_event, lk_refreshed>>
cmdvars == <<stagekit_command_pending, pending_left_weight, pending_right_weight,
             lights_active, cmdpc, cmd_left, cmd_right, irq_off, since_packet, now_age,
             usb_up, usb_out, latest, unread, taken>>
harnessvars == <<codecvars, telvars, dhcpvars, discvars, lockvars, cmdvars>>

vars == <<netvars, callvars, drvvars, obsvars, mainvars, policyvars, harnessvars>>

----------------------------------------------------------------------------
(* Protocol codec: rb3e_protocol.h *)

\* the byte at C offset i of a buffer held as a 1-based sequence
At(data, i) == data[i + 1]

\* a magic check that forgets the last byte
rb3e_check_magic_Short(data) ==
    /\ At(data, 0) = RB3E_MAGIC_BYTE0
    /\ At(data, 1) = RB3E_MAGIC_BYTE1
    /\ At(data, 2) = RB3E_MAGIC_BYTE2

rb3e_check_magic(data) ==
    /\ At(data, 0) = RB3E_MAGIC_BYTE0
    /\ At(data, 1) = RB3E_MAGIC_BYTE1
    /\ At(data, 2) = RB3E_MAGIC_BYTE2
    /\ At(data, 3) = RB3E_MAGIC_BYTE3

\* the minimum length of a StageKit packet: header (8) + data (2)
StageKitMinLen == 10

rb3e_parse_stagekit(data, len) ==
    IF len < StageKitMinLen THEN [ok |-> FALSE]
    ELSE IF ~rb3e_check_magic(data) THEN [ok |-> FALSE]
    ELSE IF At(data, 5) # RB3E_EVENT_STAGEKIT THEN [ok |-> FALSE]
    ELSE [ok |-> TRUE, left |-> At(data, 8), right |-> At(data, 9)]

----------------------------------------------------------------------------
(* Discovery marker search: json_contains in network.c *)

Quote == "\""

\* size of the pattern buffer of json_contains
PatternBufSize == 64

\* snprintf of "key":"value", with an optional space after the colon
JsonPattern(key, value, space) ==
    <<Quote>> \o key \o <<Quote, ":">> \o (IF space THEN <<" ">> ELSE <<>>)
        \o <<Quote>> \o value \o <<Quote>>

\* memcmp(json + i, pattern, pattern_len) == 0 for some 0 <= i <= len - pattern_len
FindPattern(json, len, pattern) ==
    /\ len >= Len(pattern)
    /\ \E i \in 0..(len - Len(pattern)) :
          \A k \in 1..Len(pattern) : json[i + k] = pattern[k]

json_contains_NoSpace(json, len, key, value) ==
    /\ Len(JsonPattern(key, value, FALSE)) < PatternBufSize
    /\ FindPattern(json, len, JsonPattern(key, value, FALSE))

json_contains(json, len, key, value) ==
    IF Len(JsonPattern(key, value, FALSE)) >= PatternBufSize THEN FALSE
    ELSE IF FindPattern(json, len, JsonPattern(key, value, FALSE)) THEN TRUE
    ELSE /\ Len(JsonPattern(key, value, TRUE)) < PatternBufSize
         /\ FindPattern(json, len, JsonPattern(key, value, TRUE))

KeyType == <<"t", "y", "p", "e">>
ValueDiscovery == <<"d", "i", "s", "c", "o", "v", "e", "r", "y">>
ValueTelemetry == <<"t", "e", "l", "e", "m", "e", "t", "r", "y">>

\* datagrams offered to the telemetry endpoint
DiscoveryPayloads ==
    { <<"{">> \o JsonPattern(KeyType, ValueDiscovery, FALSE) \o <<"}">>,
      <<"{">> \o JsonPattern(KeyType, ValueDiscovery, TRUE) \o <<"}">>,
      <<"{">> \o JsonPattern(KeyType, ValueTelemetry, FALSE) \o <<"}">>,
      <<>> }

\* the zero-initialised dashboard address and the senders of the model
NoAddr == <<0, 0, 0, 0>>
Peers == {<<10, 0, 0, 2>>, <<10, 0, 1, 3>>}

\* datagrams offered to the command endpoint
MkPacket(typ, left, right) ==
    <<RB3E_MAGIC_BYTE0, RB3E_MAGIC_BYTE1, RB3E_MAGIC_BYTE2, RB3E_MAGIC_BYTE3,
      0, typ, 2, 1, left, right>>

CommandPackets ==
    { MkPacket(RB3E_EVENT_STAGEKIT, 255, 32),
      MkPacket(RB3E_EVENT_STAGEKIT, 1, 128),
      MkPacket(0, 1, 128),
      SubSeq(MkPacket(RB3E_EVENT_STAGEKIT, 255, 32), 1, 9) }

----------------------------------------------------------------------------
(* Radio driver and lwIP, as network.c uses them *)

\* cyw43_tcpip_link_status(&cyw43_state, CYW43_ITF_STA)
cyw43_tcpip_link_status == link

\* the statuses in which the netif link flag is up
NetifUpStatus(s) == s \in {CYW43_LINK_NOIP, CYW43_LINK_UP}

\* wifi_link_callback: a link-down notification forces Disconnected
wifi_link_callback(up, s) == IF up THEN s ELSE NETWORK_STATE_DISCONNECTED

\* the state after the netif link flag changes from 'was' to 'now'
AfterLinkChange(was, now, s) ==
    IF link_cb_set /\ was # now THEN wifi_link_callback(now, s) ELSE s

----------------------------------------------------------------------------
(* network.c: public API.  Each operation constrains the network, call,   *)
(* driver and observation variables; its caller constrains the rest.  A   *)
(* call is entered at pc = "idle" and ends at pc = "returned" with its    *)
(* result in ret; the caller takes the result and goes back to "idle".    *)

\* entry of the API function 'name'
Called(name) == pc = "idle" /\ op' = name

\* the caller takes the result of the call that has returned
TakeResult ==
    /\ pc = "returned"
    /\ pc' = "idle"
    /\ op' = "none"
    /\ ret' = FALSE
    /\ waited' = 0
    /\ fed_since_inspect' = FALSE
    /\ svc_since_inspect' = FALSE
    /\ left_in_call' = FALSE
    /\ UNCHANGED <<netvars, drvvars>>

network_set_service_callback(callback) ==
    /\ Called("set_service_callback")
    /\ service_callback' = callback
    /\ pc' = "returned"
    /\ UNCHANGED <<net_state, wifi_fail_reason, udp_listener, udp_telemetry,
                   packet_callback, dashboard_discovered, dashboard_addr,
                   discovery_age, net_stats>>
    /\ UNCHANGED <<waited, ret, drvvars>>
    /\ UNCHANGED <<fed_since_inspect, svc_since_inspect, left_in_call>>

network_init(valid) ==
    /\ Called("init")
    /\ pc' = "returned"
    /\ IF ~valid
       THEN /\ ret' = FALSE
            /\ UNCHANGED <<netvars, link_cb_set>>
       ELSE /\ link_cb_set' = TRUE
            /\ dashboard_discovered' = FALSE
            /\ dashboard_addr' = NoAddr
            /\ discovery_age' = 0
            /\ net_state' = NETWORK_STATE_DISCONNECTED
            /\ ret' = TRUE
            /\ UNCHANGED <<wifi_fail_reason, udp_listener, udp_telemetry,
                           packet_callback, service_callback, net_stats>>
    /\ UNCHANGED waited
    /\ UNCHANGED <<link, assoc, netif_link_up, cmd_port_bound, tel_port_bound>>
    /\ UNCHANGED <<fed_since_inspect, svc_since_inspect, left_in_call>>

\* an early return that forgets Listening
ConnectIsNoop_ConnectedOnly(s) == s = NETWORK_STATE_CONNECTED

\* the early return of network_connect_wifi
ConnectIsNoop(s) == s = NETWORK_STATE_CONNECTED \/ s = NETWORK_STATE_LISTENING

\* network_connect_wifi, from the call to the sleep before the association request
network_connect_wifi ==
    /\ Called("connect")
    /\ IF ConnectIsNoop(net_state)
       THEN /\ ret' = TRUE
            /\ pc' = "returned"
            /\ UNCHANGED netvars
       ELSE /\ wifi_fail_reason' = WIFI_FAIL_NONE
            /\ net_state' = NETWORK_STATE_CONNECTING
            /\ pc' = "start"
            /\ UNCHANGED <<udp_listener, udp_telemetry, packet_callback,
                           service_callback, dashboard_discovered, dashboard_addr,
                           discovery_age, net_stats, ret>>
    /\ UNCHANGED <<waited, drvvars>>
    /\ UNCHANGED <<fed_since_inspect, svc_since_inspect, left_in_call>>

\* a failure that does not store its reason
ConnectFail_NoReason(reason) ==
    /\ UNCHANGED wifi_fail_reason
    /\ net_state' = NETWORK_STATE_ERROR
    /\ ret' = FALSE
    /\ pc' = "returned"

\* what a failed attempt leaves behind: Error, the reason, and a false result
ConnectFail(reason) ==
    /\ wifi_fail_reason' = reason
    /\ net_state' = NETWORK_STATE_ERROR
    /\ ret' = FALSE
    /\ pc' = "returned"

\* cyw43_wifi_leave(&cyw43_state, CYW43_ITF_STA)
cyw43_wifi_leave ==
    /\ assoc' = FALSE
    /\ link' = CYW43_LINK_DOWN
    /\ left_in_call' = TRUE

\* cyw43_arch_wifi_connect_async and the check of its result
ConnectStart(result) ==
    /\ pc = "start"
    /\ IF result # 0
       THEN /\ ConnectFail(WIFI_FAIL_GENERAL)
            /\ UNCHANGED <<link, assoc>>
       ELSE /\ assoc' = TRUE
            /\ link' = CYW43_LINK_JOIN
            /\ pc' = "loop"
            /\ UNCHANGED <<net_state, wifi_fail_reason, ret>>
    /\ waited' = 0
    /\ UNCHANGED <<udp_listener, udp_telemetry, packet_callback, service_callback,
                   dashboard_discovered, dashboard_addr, discovery_age, net_stats>>
    /\ UNCHANGED <<netif_link_up, link_cb_set, cmd_port_bound, tel_port_bound>>
    /\ UNCHANGED obsvars

\* a timeout taken in the wrong unit, a thousand times too long
time_reached_WrongUnit == waited >= ConnectTimeoutTicks * 1000

\* time_reached(timeout), timeout = make_timeout_time_ms(WIFI_CONNECT_TIMEOUT_MS)
time_reached == waited >= ConnectTimeoutTicks

\* the loop condition and, inside the loop, watchdog_update()
ConnectLoop ==
    /\ pc = "loop"
    /\ IF time_reached
       THEN pc' = "timeout" /\ UNCHANGED fed_since_inspect
       ELSE pc' = "service" /\ fed_since_inspect' = TRUE
    /\ UNCHANGED <<netvars, waited, ret, drvvars>>
    /\ UNCHANGED <<op, svc_since_inspect, left_in_call>>

\* an iteration that does not call the service callback
ConnectService_NoCall ==
    /\ pc = "service"
    /\ pc' = "inspect"
    /\ UNCHANGED <<netvars, waited, ret, drvvars, obsvars>>

\* if (service_callback) service_callback();
ConnectService ==
    /\ pc = "service"
    /\ pc' = "inspect"
    /\ svc_since_inspect' = (svc_since_inspect \/ service_callback)
    /\ UNCHANGED <<netvars, waited, ret, drvvars>>
    /\ UNCHANGED <<op, fed_since_inspect, left_in_call>>

\* a classification that forgets the bad-password status
FailReasonOf_NoBadAuth(status) ==
    IF status = CYW43_LINK_NONET THEN WIFI_FAIL_NONET ELSE WIFI_FAIL_GENERAL

\* the failure reason of a terminal link status
FailReasonOf(status) ==
    IF status = CYW43_LINK_NONET THEN WIFI_FAIL_NONET
    ELSE IF status = CYW43_LINK_BADAUTH THEN WIFI_FAIL_BADAUTH
    ELSE WIFI_FAIL_GENERAL

IsTerminalFailure(status) ==
    status \in {CYW43_LINK_NONET, CYW43_LINK_BADAUTH, CYW43_LINK_FAIL}

\* the status read of one iteration and the branch it selects
ConnectInspect ==
    /\ pc = "inspect"
    /\ fed_since_inspect' = FALSE
    /\ svc_since_inspect' = FALSE
    /\ LET status == cyw43_tcpip_link_status IN
       IF status = CYW43_LINK_UP
       THEN /\ wifi_fail_reason' = WIFI_FAIL_NONE
            /\ net_state' = NETWORK_STATE_CONNECTED
            /\ ret' = TRUE
            /\ pc' = "returned"
            /\ UNCHANGED <<link, assoc, left_in_call>>
       ELSE IF IsTerminalFailure(status)
       THEN /\ ConnectFail(FailReasonOf(status))
            /\ cyw43_wifi_leave
       ELSE /\ pc' = "sleep"
            /\ UNCHANGED <<net_state, wifi_fail_reason, ret,
                           link, assoc, left_in_call>>
    /\ UNCHANGED <<udp_listener, udp_telemetry, packet_callback, service_callback,
                   dashboard_discovered, dashboard_addr, discovery_age, net_stats>>
    /\ UNCHANGED <<waited, netif_link_up, link_cb_set, cmd_port_bound, tel_port_bound>>
    /\ UNCHANGED op

\* sleep_ms(10) at the end of an iteration
ConnectSleep ==
    /\ pc = "sleep"
    /\ pc' = "loop"
    /\ UNCHANGED <<netvars, waited, ret, drvvars, obsvars>>

\* after the loop: leave, read the final status for the log, report Timeout
ConnectTimeout ==
    /\ pc = "timeout"
    /\ cyw43_wifi_leave
    /\ fed_since_inspect' = FALSE
    /\ svc_since_inspect' = FALSE
    /\ ConnectFail(WIFI_FAIL_TIMEOUT)
    /\ UNCHANGED <<udp_listener, udp_telemetry, packet_callback, service_callback,
                   dashboard_discovered, dashboard_addr, discovery_age, net_stats>>
    /\ UNCHANGED <<waited, netif_link_up, link_cb_set, cmd_port_bound, tel_port_bound>>
    /\ UNCHANGED op

\* a guard that accepts any connected state
ListenerMayStart_AnyConnected(s) ==
    s = NETWORK_STATE_CONNECTED \/ s = NETWORK_STATE_LISTENING

\* the guard of network_start_listener
ListenerMayStart(s) == s = NETWORK_STATE_CONNECTED

\* network_start_listener up to cyw43_arch_lwip_end(): new1 and new2 tell
\* whether udp_new() returns a PCB; udp_bind fails on a port still bound
network_start_listener(callback, new1, new2) ==
    /\ Called("start_listener")
    /\ IF ~ListenerMayStart(net_state)
       THEN /\ ret' = FALSE
            /\ pc' = "returned"
            /\ UNCHANGED <<packet_callback, udp_listener, udp_telemetry,
                           cmd_port_bound, tel_port_bound>>
       ELSE /\ packet_callback' = callback
            /\ IF ~new1 \/ cmd_port_bound
               THEN /\ udp_listener' = FALSE
                    /\ ret' = FALSE
                    /\ pc' = "returned"
                    /\ UNCHANGED <<udp_telemetry, cmd_port_bound, tel_port_bound>>
               ELSE /\ udp_listener' = TRUE
                    /\ cmd_port_bound' = TRUE
                    /\ IF ~new2 \/ tel_port_bound
                       THEN udp_telemetry' = FALSE /\ UNCHANGED tel_port_bound
                       ELSE udp_telemetry' = TRUE /\ tel_port_bound' = TRUE
                    /\ pc' = "sl_commit"
                    /\ UNCHANGED ret
    /\ UNCHANGED <<net_state, wifi_fail_reason, service_callback,
                   dashboard_discovered, dashboard_addr, discovery_age, net_stats>>
    /\ UNCHANGED <<waited, link, assoc, netif_link_up, link_cb_set>>
    /\ UNCHANGED <<fed_since_inspect, svc_since_inspect, left_in_call>>

\* net_state = NETWORK_STATE_LISTENING; return true;
StartListenerCommit ==
    /\ pc = "sl_commit"
    /\ net_state' = NETWORK_STATE_LISTENING
    /\ ret' = TRUE
    /\ pc' = "returned"
    /\ UNCHANGED <<wifi_fail_reason, udp_listener, udp_telemetry, packet_callback,
                   service_callback, dashboard_discovered, dashboard_addr,
                   discovery_age, net_stats>>
    /\ UNCHANGED <<waited, drvvars, obsvars>>

\* the body of network_stop_listener up to the test of net_state; 'commit'
\* and 'done' are the positions after the test
StopListenerBody(commit, done) ==
    /\ udp_listener' = FALSE
    /\ cmd_port_bound' = (IF udp_listener THEN FALSE ELSE cmd_port_bound)
    /\ udp_telemetry' = FALSE
    /\ tel_port_bound' = (IF udp_telemetry THEN FALSE ELSE tel_port_bound)
    /\ packet_callback' = FALSE
    /\ dashboard_discovered' = FALSE
    /\ discovery_age' = 0
    /\ pc' = (IF net_state = NETWORK_STATE_LISTENING THEN commit ELSE done)
    /\ UNCHANGED <<net_state, wifi_fail_reason, service_callback, dashboard_addr,
                   net_stats>>
    /\ UNCHANGED <<waited, ret, link, assoc, netif_link_up, link_cb_set>>
    /\ UNCHANGED <<fed_since_inspect, svc_since_inspect, left_in_call>>

\* net_state = NETWORK_STATE_CONNECTED, after the test found Listening
StopListenerCommitTo(from, to) ==
    /\ pc = from
    /\ net_state' = NETWORK_STATE_CONNECTED
    /\ pc' = to
    /\ UNCHANGED <<wifi_fail_reason, udp_listener, udp_telemetry, packet_callback,
                   service_callback, dashboard_discovered, dashboard_addr,
                   discovery_age, net_stats>>
    /\ UNCHANGED <<waited, ret, drvvars, obsvars>>

network_stop_listener ==
    /\ Called("stop_listener")
    /\ StopListenerBody("stop_commit", "returned")

StopListenerCommit == StopListenerCommitTo("stop_commit", "returned")

\* a liveness test that takes a link without address for a live one
LinkIsUp_NoIpToo(status) == status >= CYW43_LINK_NOIP

\* the liveness test of network_check_connection
LinkIsUp(status) == status = CYW43_LINK_UP

\* network_check_connection
network_check_connection ==
    /\ Called("check_connection")
    /\ pc' = "returned"
    /\ IF net_state # NETWORK_STATE_CONNECTED /\ net_state # NETWORK_STATE_LISTENING
       THEN ret' = FALSE /\ UNCHANGED net_state
       ELSE IF ~LinkIsUp(cyw43_tcpip_link_status)
       THEN ret' = FALSE /\ net_state' = NETWORK_STATE_DISCONNECTED
       ELSE ret' = TRUE /\ UNCHANGED net_state
    /\ UNCHANGED <<wifi_fail_reason, udp_listener, udp_telemetry, packet_callback,
                   service_callback, dashboard_discovered, dashboard_addr,
                   discovery_age, net_stats>>
    /\ UNCHANGED <<waited, drvvars>>
    /\ UNCHANGED <<fed_since_inspect, svc_since_inspect, left_in_call>>

network_disconnect_NoStop ==
    /\ Called("disconnect")
    /\ pc' = "dc_leave"
    /\ UNCHANGED <<netvars, waited, ret, drvvars>>
    /\ UNCHANGED <<fed_since_inspect, svc_since_inspect, left_in_call>>

\* network_disconnect: network_stop_listener(), then the leave
network_disconnect ==
    /\ Called("disconnect")
    /\ StopListenerBody("dc_commit", "dc_leave")

DisconnectStopCommit == StopListenerCommitTo("dc_commit", "dc_leave")

DisconnectLeave ==
    /\ pc = "dc_leave"
    /\ cyw43_wifi_leave
    /\ net_state' = NETWORK_STATE_DISCONNECTED
    /\ dashboard_discovered' = FALSE
    /\ discovery_age' = 0
    /\ pc' = "returned"
    /\ UNCHANGED <<wifi_fail_reason, udp_listener, udp_telemetry, packet_callback,
                   service_callback, dashboard_addr, net_stats>>
    /\ UNCHANGED <<waited, ret>>
    /\ UNCHANGED <<netif_link_up, link_cb_set, cmd_port_bound, tel_port_bound>>
    /\ UNCHANGED <<op, fed_since_inspect, svc_since_inspect>>

\* network_wifi_connected
network_wifi_connected ==
    net_state = NETWORK_STATE_CONNECTED \/ net_state = NETWORK_STATE_LISTENING

----------------------------------------------------------------------------
(* Callbacks delivered from the driver's context.  None is delivered      *)
(* between a return and the caller's next instruction (pc = "returned"):  *)
(* that point is the same as the one after it.                            *)

\* udp_stagekit_callback, for a datagram p on the command port
udp_stagekit_callback(p) ==
    /\ pc # "returned"
    /\ cmd_port_bound
    /\ LET r == rb3e_parse_stagekit(p, Len(p))
           processed == packet_callback /\ Len(p) >= 10 /\ r.ok
           invalid == packet_callback /\ Len(p) >= 10 /\ ~r.ok
       IN net_stats' =
             [net_stats EXCEPT
                !.packets_received = Incr(@),
                !.packets_processed = IF processed THEN Incr(@) ELSE @,
                !.packets_invalid = IF invalid THEN Incr(@) ELSE @]
    /\ UNCHANGED <<net_state, wifi_fail_reason, udp_listener, udp_telemetry,
                   packet_callback, service_callback, dashboard_discovered,
                   dashboard_addr, discovery_age>>
    /\ UNCHANGED <<callvars, drvvars, obsvars>>

\* udp_telemetry_callback, for a datagram p from addr on the telemetry port
udp_telemetry_callback(p, addr) ==
    /\ pc # "returned"
    /\ tel_port_bound
    /\ IF Len(p) > 0 /\ Len(p) < 256
          /\ json_contains(p, Len(p), KeyType, ValueDiscovery)
       THEN /\ dashboard_addr' = addr
            /\ dashboard_discovered' = TRUE
            /\ discovery_age' = 0
            /\ net_stats' = [net_stats EXCEPT !.discovery_received = Incr(@)]
       ELSE UNCHANGED <<dashboard_addr, dashboard_discovered, discovery_age, net_stats>>
    /\ UNCHANGED <<net_state, wifi_fail_reason, udp_listener, udp_telemetry,
                   packet_callback, service_callback>>
    /\ UNCHANGED <<callvars, drvvars, obsvars>>

\* the driver reports a new link status s of the current association; a
\* change of the netif link flag invokes wifi_link_callback
DriverEvent(s) ==
    /\ pc # "returned"
    /\ assoc
    /\ s # link
    /\ link' = s
    /\ netif_link_up' = NetifUpStatus(s)
    /\ net_state' = AfterLinkChange(netif_link_up, NetifUpStatus(s), net_state)
    /\ UNCHANGED <<wifi_fail_reason, udp_listener, udp_telemetry, packet_callback,
                   service_callback, dashboard_discovered, dashboard_addr,
                   discovery_age, net_stats>>
    /\ UNCHANGED <<callvars, assoc, link_cb_set, cmd_port_bound, tel_port_bound, obsvars>>

\* the link-down notification that follows a leave or a new join
NetifLinkDown ==
    /\ pc # "returned"
    /\ netif_link_up
    /\ ~NetifUpStatus(link)
    /\ netif_link_up' = FALSE
    /\ net_state' = AfterLinkChange(TRUE, FALSE, net_state)
    /\ UNCHANGED <<wifi_fail_reason, udp_listener, udp_telemetry, packet_callback,
                   service_callback, dashboard_discovered, dashboard_addr,
                   discovery_age, net_stats>>
    /\ UNCHANGED <<callvars, link, assoc, link_cb_set, cmd_port_bound,
                   tel_port_bound, obsvars>>

\* one tick of the clock, seen by the timers of the network module; the
\* connect timeout, far longer than the way from make_timeout_time_ms to the
\* first test of the loop condition, is not reached before the first iteration
TickNet ==
    /\ pc # "returned"
    /\ waited' = (IF pc \in {"service", "inspect", "sleep"}
                  THEN Min(waited + 1, ConnectTimeoutTicks) ELSE waited)
    /\ discovery_age' = (IF dashboard_discovered
                         THEN Min(discovery_age + 1, DiscoveryTimeoutTicks + 1)
                         ELSE discovery_age)
    /\ UNCHANGED <<net_state, wifi_fail_reason, udp_listener, udp_telemetry,
                   packet_callback, service_callback, dashboard_discovered,
                   dashboard_addr, net_stats>>
    /\ UNCHANGED <<pc, ret, drvvars, obsvars>>

----------------------------------------------------------------------------
(* network.c: telemetry send and discovery queries *)

RB3E_TELEMETRY_PORT == 21071

\* bitwise OR of two non-negative integers
RECURSIVE BitOr(_, _)
BitOr(a, b) ==
    IF a = 0 THEN b
    ELSE IF b = 0 THEN a
    ELSE (IF a % 2 = 1 \/ b % 2 = 1 THEN 1 ELSE 0) + 2 * BitOr(a \div 2, b \div 2)

\* bitwise complement of an octet
BitNot8(a) == 255 - a

\* netif_ip4_addr(netif_default)->addr | ~netif_ip4_netmask(netif_default)->addr
SubnetBroadcast(addr, mask) == [i \in 1..4 |-> BitOr(addr[i], BitNot8(mask[i]))]

\* IP_ADDR4(&dest_addr, 255, 255, 255, 255)
LimitedBroadcast == <<255, 255, 255, 255>>

\* the address and netmask of the station interface
NetifConfigs ==
    { [ip |-> <<10, 0, 1, 7>>, nm |-> <<255, 255, 254, 0>>] }

\* netif_default is the station interface from network_init on
netif_default == link_cb_set

\* the results of the udp_sendto calls of one telemetry send, TRUE for ERR_OK
SendResults == {<<a, b>> : a, b \in BOOLEAN}

\* udp_sendto(udp_telemetry, p, &dest_addr, RB3E_TELEMETRY_PORT)
udp_sendto(dest, port) == [dest |-> dest, port |-> port]

\* absolute_time_diff_us(last_discovery_time, now) > DISCOVERY_TIMEOUT_MS * 1000
DiscoveryStale_Never == FALSE

DiscoveryStale == discovery_age * TickMs > DISCOVERY_TIMEOUT_MS

\* the datagrams sent when no dashboard is discovered
BroadcastSends_GlobalOnly ==
    <<udp_sendto(LimitedBroadcast, RB3E_TELEMETRY_PORT)>>

BroadcastSends ==
    (IF netif_default
     THEN <<udp_sendto(SubnetBroadcast(netif_ip4_addr, netif_ip4_netmask),
                       RB3E_TELEMETRY_PORT)>>
     ELSE <<>>)
    \o <<udp_sendto(LimitedBroadcast, RB3E_TELEMETRY_PORT)>>

\* network_send_telemetry; alloc: pbuf_alloc returns a buffer, err_ok[i]: the
\* i-th udp_sendto of the call returns ERR_OK.  err holds the result of
\* the last udp_sendto when it is tested
network_send_telemetry(alloc, err_ok) ==
    /\ Called("send_telemetry")
    /\ pc' = "returned"
    /\ ret' = FALSE
    /\ IF ~udp_telemetry \/ net_state # NETWORK_STATE_LISTENING
       THEN /\ tx' = <<>>
            /\ tx_err' = <<>>
            /\ pbuf_null' = FALSE
            /\ UNCHANGED <<dashboard_discovered, net_stats>>
       ELSE LET discovered == dashboard_discovered /\ ~DiscoveryStale
                sends == IF discovered
                         THEN <<udp_sendto(dashboard_addr, RB3E_TELEMETRY_PORT)>>
                         ELSE BroadcastSends
                err == err_ok[Len(sends)]
            IN /\ dashboard_discovered' = discovered
               /\ pbuf_null' = ~alloc
               /\ IF ~alloc
                  THEN tx' = <<>> /\ tx_err' = <<>> /\ UNCHANGED net_stats
                  ELSE /\ tx' = sends
                       /\ tx_err' = SubSeq(err_ok, 1, Len(sends))
                       /\ net_stats' =
                             (IF err
                              THEN [net_stats EXCEPT !.telemetry_sent = Incr(@)]
                              ELSE net_stats)
    /\ UNCHANGED <<net_state, wifi_fail_reason, udp_listener, udp_telemetry,
                   packet_callback, service_callback, dashboard_addr, discovery_age>>
    /\ UNCHANGED <<waited, drvvars>>
    /\ UNCHANGED <<fed_since_inspect, svc_since_inspect, left_in_call>>

\* network_dashboard_discovered
network_dashboard_discovered ==
    /\ Called("dashboard_discovered")
    /\ pc' = "returned"
    /\ ret' = dashboard_discovered
    /\ UNCHANGED <<netvars, waited, drvvars>>
    /\ UNCHANGED <<fed_since_inspect, svc_since_inspect, left_in_call>>

TelOff ==
    /\ netif_ip4_addr = <<10, 0, 0, 7>>
    /\ netif_ip4_netmask = <<255, 255, 255, 0>>
    /\ tx = <<>>
    /\ tx_err = <<>>
    /\ pbuf_null = FALSE
    /\ disc_from = NoAddr

----------------------------------------------------------------------------
(* dhcpserver.c *)

DHCPS_BASE_IP == 100
DHCPS_MAX_IP == 104
DHCPS_LEASE_TIME == 86400

DHCP_DISCOVER == 1
DHCP_OFFER == 2
DHCP_REQUEST == 3
DHCP_ACK == 5
DHCP_NAK == 6
DHCP_RELEASE == 7

DHCP_OPT_SUBNET_MASK == 1
DHCP_OPT_ROUTER == 3
DHCP_OPT_DNS == 6
DHCP_OPT_REQUESTED_IP == 50
DHCP_OPT_LEASE_TIME == 51
DHCP_OPT_MSG_TYPE == 53
DHCP_OPT_SERVER_ID == 54
DHCP_OPT_END == 255

PORT_DHCP_SERVER == 67
PORT_DHCP_CLIENT == 68

DHCP_MAGIC == 1669485411

\* the indices of the lease table
LeaseIndices == 0..(DHCPS_MAX_IP - DHCPS_BASE_IP)

\* the hardware address of client n; client 0 has the all-zero address
ClientMac(n) == IF n = 0 THEN <<0, 0, 0, 0, 0, 0>> ELSE <<170, 187, 204, 221, 238, n>>

Clients == 0..MaxMac

ClientMacs == {ClientMac(n) : n \in Clients}

\* msg->chaddr: the hardware address and 10 bytes of padding
Chaddr(mac, pad) == mac \o [i \in 1..10 |-> pad]

\* the first 6 bytes of chaddr, as memcmp and memcpy take them
MacOf(chaddr) == SubSeq(chaddr, 1, 6)

Htonl_NoSwap(x) ==
    <<x % 256, (x \div 256) % 256, (x \div 65536) % 256, (x \div 16777216) % 256>>

\* a uint32_t in network byte order
Htonl(x) ==
    <<(x \div 16777216) % 256, (x \div 65536) % 256, (x \div 256) % 256, x % 256>>

\* a datagram on the server port: whether p->len covers the fixed part of
\* dhcp_msg_t, the header fields the server reads, and the bytes of the
\* options that p->len covers
DhcpMsg(len_ok, op_, htype, hlen, xid, chaddr, magic, options) ==
    [len_ok |-> len_ok, op |-> op_, htype |-> htype, hlen |-> hlen, xid |-> xid,
     chaddr |-> chaddr, magic |-> magic, options |-> options]

\* a well-formed request of client n
ClientRequest(n, type) ==
    DhcpMsg(TRUE, 1, 1, 6, 1000 + n, Chaddr(ClientMac(n), (n % 2) * 255), DHCP_MAGIC,
            <<DHCP_OPT_MSG_TYPE, 1, type, DHCP_OPT_END>>)

\* the datagrams offered to the server
DhcpDatagrams ==
    {ClientRequest(n, type) : n \in Clients, type \in {DHCP_DISCOVER, DHCP_REQUEST}}
    \cup
    { ClientRequest(1, DHCP_RELEASE),
      [ClientRequest(1, DHCP_REQUEST) EXCEPT !.len_ok = FALSE],
      [ClientRequest(1, DHCP_REQUEST) EXCEPT !.op = 2],
      [ClientRequest(1, DHCP_REQUEST) EXCEPT !.htype = 6],
      [ClientRequest(1, DHCP_REQUEST) EXCEPT !.hlen = 16],
      [ClientRequest(1, DHCP_REQUEST) EXCEPT !.magic = 0],
      [ClientRequest(1, DHCP_REQUEST) EXCEPT
          !.options = <<0, DHCP_OPT_REQUESTED_IP, 4, 192, 168, 4, 100,
                        DHCP_OPT_MSG_TYPE, 1, DHCP_REQUEST, DHCP_OPT_END>>],
      [ClientRequest(1, DHCP_REQUEST) EXCEPT
          !.options = <<DHCP_OPT_MSG_TYPE, 5, DHCP_REQUEST>>],
      [ClientRequest(1, DHCP_REQUEST) EXCEPT !.options = <<DHCP_OPT_END>>],
      [ClientRequest(1, DHCP_REQUEST) EXCEPT
          !.options = <<DHCP_OPT_MSG_TYPE, 1, DHCP_REQUEST, DHCP_OPT_DNS>>] }

\* the option scan of dhcp_recv_cb from offset i: the message type found
RECURSIVE ScanOptions(_, _, _)
ScanOptions(opt, i, msg_type) ==
    IF ~(i <= Len(opt) /\ opt[i] # DHCP_OPT_END) THEN msg_type
    ELSE IF opt[i] = 0 THEN ScanOptions(opt, i + 1, msg_type)
    ELSE IF i + 1 > Len(opt) THEN msg_type
    ELSE LET opt_code == opt[i]
             opt_len == opt[i + 1]
         IN IF i + 2 + opt_len > Len(opt) + 1 THEN msg_type
            ELSE ScanOptions(opt, i + 2 + opt_len,
                             IF opt_code = DHCP_OPT_MSG_TYPE /\ opt_len >= 1
                             THEN opt[i + 2] ELSE msg_type)

\* the option scan of dhcp_recv_cb from offset i: the offsets of the options
\* it reads (1 is the first byte of the options, Len(opt) the last byte of
\* the datagram).  The length byte is read right after the code byte, before
\* any comparison with opt_end
RECURSIVE ScanReads(_, _)
ScanReads(opt, i) ==
    IF i > Len(opt) THEN {}
    ELSE IF opt[i] = DHCP_OPT_END \/ opt[i] = 0
         THEN {i} \cup (IF opt[i] = 0 THEN ScanReads(opt, i + 1) ELSE {})
    ELSE IF i + 1 > Len(opt) THEN {i, i + 1}
    ELSE LET opt_code == opt[i]
             opt_len == opt[i + 1]
         IN IF i + 2 + opt_len > Len(opt) + 1 THEN {i, i + 1}
            ELSE {i, i + 1}
                 \cup (IF opt_code = DHCP_OPT_MSG_TYPE /\ opt_len >= 1
                       THEN {i + 2} ELSE {})
                 \cup (IF opt_code = DHCP_OPT_REQUESTED_IP /\ opt_len >= 4
                       THEN (i + 2)..(i + 5) ELSE {})
                 \cup ScanReads(opt, i + 2 + opt_len)

\* dhcp_find_ip, from index i on, with the first empty slot seen so far
RECURSIVE FindIpFrom(_, _, _, _)
FindIpFrom(table, mac, i, empty) ==
    IF i > DHCPS_MAX_IP - DHCPS_BASE_IP THEN empty
    ELSE IF table[i].mac = mac THEN i
    ELSE FindIpFrom(table, mac, i + 1,
                    IF empty < 0 /\ table[i].expiry = 0 THEN i ELSE empty)

dhcp_find_ip_FirstEmpty(table, mac) ==
    IF \E i \in LeaseIndices : table[i].expiry = 0
    THEN CHOOSE i \in LeaseIndices :
            table[i].expiry = 0 /\ \A j \in LeaseIndices : table[j].expiry = 0 => i <= j
    ELSE -1

dhcp_find_ip_Evict(table, mac) ==
    IF FindIpFrom(table, mac, 0, -1) < 0 THEN 0 ELSE FindIpFrom(table, mac, 0, -1)

\* a search that prefers the first empty slot to the client's own slot
dhcp_find_ip_EmptyFirst(table, mac) ==
    IF dhcp_find_ip_FirstEmpty(table, mac) >= 0
    THEN dhcp_find_ip_FirstEmpty(table, mac)
    ELSE FindIpFrom(table, mac, 0, -1)

dhcp_find_ip(table, mac) == FindIpFrom(table, mac, 0, -1)

\* dhcp_add_option
dhcp_add_option(opt, code, len, data) == opt \o <<code, len>> \o SubSeq(data, 1, len)

\* the reply type for a request type
ReplyType_AlwaysOffer(msg_type) == DHCP_OFFER

ReplyType(msg_type) == IF msg_type = DHCP_DISCOVER THEN DHCP_OFFER ELSE DHCP_ACK

\* the client address for a lease index
ClientIp_NoBase(server_ip, lease_idx) ==
    <<server_ip[1], server_ip[2], server_ip[3], lease_idx % 256>>

ClientIp(server_ip, lease_idx) ==
    <<server_ip[1], server_ip[2], server_ip[3], (DHCPS_BASE_IP + lease_idx) % 256>>

\* the reply built by dhcp_recv_cb, with its destination
DhcpReply(msg, msg_type, lease_idx) ==
    [op |-> 2, htype |-> 1, hlen |-> 6, xid |-> msg.xid,
     yiaddr |-> ClientIp(d.ip, lease_idx), siaddr |-> d.ip,
     chaddr |-> msg.chaddr, magic |-> DHCP_MAGIC,
     options |->
        dhcp_add_option(
         dhcp_add_option(
          dhcp_add_option(
           dhcp_add_option(
            dhcp_add_option(
             dhcp_add_option(<<>>, DHCP_OPT_MSG_TYPE, 1, <<ReplyType(msg_type)>>),
             DHCP_OPT_SERVER_ID, 4, d.ip),
            DHCP_OPT_LEASE_TIME, 4, Htonl(DHCPS_LEASE_TIME)),
           DHCP_OPT_SUBNET_MASK, 4, d.nm),
          DHCP_OPT_ROUTER, 4, d.ip),
         DHCP_OPT_DNS, 4, d.ip)
        \o <<DHCP_OPT_END>>,
     dest |-> LimitedBroadcast, port |-> PORT_DHCP_CLIENT]

\* the client whose OFFERs are remembered
WatchedMac == ClientMac(1)

NoOffer == -1

DhcpValid_NoMagic(msg) ==
    /\ msg.len_ok
    /\ msg.op = 1 /\ msg.htype = 1 /\ msg.hlen = 6

\* "Validate packet": the three tests dhcp_recv_cb makes before the scan
DhcpValid(msg) ==
    /\ msg.len_ok
    /\ msg.op = 1 /\ msg.htype = 1 /\ msg.hlen = 6
    /\ msg.magic = DHCP_MAGIC

\* "Update lease table on ACK": the test guarding the write of the slot
LeaseWritten(reply_type) == reply_type = DHCP_ACK

\* dhcp_recv_cb for the datagram msg; alloc: pbuf_alloc returns a buffer
dhcp_recv_cb(msg, alloc) ==
    /\ dhcp_port_bound
    /\ dhcp_msg = <<>>
    /\ dhcp_msg' = <<msg>>
    /\ LET valid == DhcpValid(msg)
           msg_type == ScanOptions(msg.options, 1, 0)
           lease_idx == dhcp_find_ip(leases, MacOf(msg.chaddr))
       IN IF ~valid \/ msg_type \notin {DHCP_DISCOVER, DHCP_REQUEST} \/ lease_idx < 0
          THEN /\ dhcp_reply' = <<>>
               /\ UNCHANGED <<leases, offered, acked>>
          ELSE LET reply == DhcpReply(msg, msg_type, lease_idx)
                   mac == MacOf(msg.chaddr)
               IN /\ leases' = (IF LeaseWritten(ReplyType(msg_type))
                                THEN [leases EXCEPT ![lease_idx] = [mac |-> mac, expiry |-> 1]]
                                ELSE leases)
                  /\ dhcp_reply' = (IF alloc THEN <<reply>> ELSE <<>>)
                  /\ offered' = (IF alloc /\ ReplyType(msg_type) = DHCP_OFFER
                                    /\ mac = WatchedMac
                                 THEN lease_idx ELSE offered)
                  /\ acked' = (IF LeaseWritten(ReplyType(msg_type))
                               THEN [acked EXCEPT ![mac] = lease_idx] ELSE acked)
    /\ UNCHANGED <<d, dhcp_port_bound>>

\* the end of dhcp_recv_cb: pbuf_free(p)
DhcpDone ==
    /\ dhcp_msg # <<>>
    /\ dhcp_msg' = <<>>
    /\ dhcp_reply' = <<>>
    /\ UNCHANGED <<leases, d, dhcp_port_bound, offered, acked>>

\* the configurations dhcp_server_init is called with
ServerConfigs ==
    { [ip |-> <<192, 168, 4, 1>>, nm |-> <<255, 255, 255, 0>>] }

NoLeases == [i \in LeaseIndices |-> [mac |-> <<0, 0, 0, 0, 0, 0>>, expiry |-> 0]]

NoneAcked == [m \in ClientMacs |-> -1]

\* dhcp_server_init(d, ip, nm); new: udp_new returns a PCB; udp_bind fails
\* when a PCB is still bound to the server port
dhcp_server_init(ip, nm, new) ==
    /\ dhcp_msg = <<>>
    /\ leases' = NoLeases
    /\ offered' = NoOffer
    /\ acked' = NoneAcked
    /\ IF ~new
       THEN d' = [ip |-> ip, nm |-> nm, udp |-> FALSE] /\ UNCHANGED dhcp_port_bound
       ELSE IF dhcp_port_bound
            THEN d' = [ip |-> ip, nm |-> nm, udp |-> FALSE] /\ UNCHANGED dhcp_port_bound
            ELSE d' = [ip |-> ip, nm |-> nm, udp |-> TRUE] /\ dhcp_port_bound' = TRUE
    /\ UNCHANGED <<dhcp_msg, dhcp_reply>>

\* dhcp_server_deinit(d)
dhcp_server_deinit ==
    /\ dhcp_msg = <<>>
    /\ d.udp
    /\ d' = [d EXCEPT !.udp = FALSE]
    /\ dhcp_port_bound' = FALSE
    /\ UNCHANGED <<leases, dhcp_msg, dhcp_reply, offered, acked>>

\* no statement executed yet
NoEvent == [ev |-> "none", var |-> "none"]

DhcpOff ==
    /\ leases = NoLeases
    /\ d = [ip |-> NoAddr, nm |-> NoAddr, udp |-> FALSE]
    /\ dhcp_port_bound = FALSE
    /\ dhcp_msg = <<>>
    /\ dhcp_reply = <<>>
    /\ offered = NoOffer
    /\ acked = NoneAcked

\* no datagram in udp_telemetry_callback
DiscOff == rx = <<>>

\* the lock is free
LockOff ==
    /\ lwip_locked = FALSE
    /\ lk_event = NoEvent
    /\ lk_refreshed = FALSE

\* no command given to the peripheral, no valid packet received
NoCmd == <<>>

\* main()'s command state when the main loop is entered
CmdBoot ==
    /\ stagekit_command_pending = FALSE
    /\ pending_left_weight = 0
    /\ pending_right_weight = 0
    /\ lights_active = FALSE
    /\ cmdpc = "M349"
    /\ cmd_left = 0
    /\ cmd_right = 0
    /\ irq_off = FALSE
    /\ since_packet = 0
    /\ now_age = 0
    /\ usb_up = FALSE
    /\ usb_out = NoCmd
    /\ latest = NoCmd
    /\ unread = FALSE
    /\ taken = NoCmd

----------------------------------------------------------------------------
(* The state after static initialisation *)

InitNet ==
    /\ net_state = NETWORK_STATE_DISCONNECTED
    /\ wifi_fail_reason = WIFI_FAIL_NONE
    /\ udp_listener = FALSE
    /\ udp_telemetry = FALSE
    /\ packet_callback = FALSE
    /\ service_callback = FALSE
    /\ dashboard_discovered = FALSE
    /\ dashboard_addr = NoAddr
    /\ discovery_age = 0
    /\ net_stats = [packets_received |-> 0, packets_processed |-> 0,
                    packets_invalid |-> 0, telemetry_sent |-> 0,
                    discovery_received |-> 0]
    /\ pc = "idle"
    /\ waited = 0
    /\ ret = FALSE
    /\ link = CYW43_LINK_DOWN
    /\ assoc = FALSE
    /\ netif_link_up = FALSE
    /\ link_cb_set = FALSE
    /\ cmd_port_bound = FALSE
    /\ tel_port_bound = FALSE
    /\ op = "none"
    /\ fed_since_inspect = FALSE
    /\ svc_since_inspect = FALSE
    /\ left_in_call = FALSE

InitPolicy ==
    /\ auto_attempts = 0
    /\ retry_delayed = FALSE

CodecOff ==
    /\ buf = <<>>
    /\ cpc = "off"
    /\ parsed = [ok |-> FALSE]

Init ==
    /\ InitNet
    /\ mainpc = "off"
    /\ attempt = 0
    /\ wifi_is_connected = FALSE
    /\ wifi_check_age = 0
    /\ InitPolicy
    /\ CodecOff
    /\ TelOff
    /\ DhcpOff
    /\ DiscOff
    /\ LockOff
    /\ CmdBoot

others == <<mainvars, policyvars, harnessvars>>

----------------------------------------------------------------------------
(* Spec: the network module under an arbitrary caller *)

ApiSetServiceCallback ==
    \E callback \in BOOLEAN : network_set_service_callback(callback) /\ UNCHANGED others

ApiInit ==
    \E valid \in BOOLEAN : network_init(valid) /\ UNCHANGED others

ApiConnect == link_cb_set /\ network_connect_wifi /\ UNCHANGED others

ApiStartListener ==
    /\ link_cb_set
    /\ \E callback \in BOOLEAN, new1 \in BOOLEAN, new2 \in BOOLEAN :
          network_start_listener(callback, new1, new2)
    /\ UNCHANGED others

ApiStopListener == link_cb_set /\ network_stop_listener /\ UNCHANGED others

ApiCheckConnection == link_cb_set /\ network_check_connection /\ UNCHANGED others

ApiDisconnect == link_cb_set /\ network_disconnect /\ UNCHANGED others

ApiTakeResult == TakeResult /\ UNCHANGED others

StepConnectStart == \E result \in {0, -1} : ConnectStart(result) /\ UNCHANGED others
StepConnectLoop == ConnectLoop /\ UNCHANGED others
StepConnectService == ConnectService /\ UNCHANGED others
StepConnectInspect == ConnectInspect /\ UNCHANGED others
StepConnectSleep == ConnectSleep /\ UNCHANGED others
StepConnectTimeout == ConnectTimeout /\ UNCHANGED others
StepStartListenerCommit == StartListenerCommit /\ UNCHANGED others
StepStopListenerCommit == StopListenerCommit /\ UNCHANGED others
StepDisconnectStopCommit == DisconnectStopCommit /\ UNCHANGED others
StepDisconnectLeave == DisconnectLeave /\ UNCHANGED others

\* the steps of a connect call in progress
ConnectSteps ==
    \/ StepConnectStart
    \/ StepConnectLoop
    \/ StepConnectService
    \/ StepConnectInspect
    \/ StepConnectSleep
    \/ StepConnectTimeout

EnvStageKitPacket ==
    \E p \in CommandPackets : udp_stagekit_callback(p) /\ UNCHANGED others

EnvTelemetryPacket ==
    \E p \in DiscoveryPayloads, addr \in Peers :
        udp_telemetry_callback(p, addr) /\ UNCHANGED others

EnvDriverEvent == \E s \in LinkStatus : DriverEvent(s) /\ UNCHANGED others

EnvNetifLinkDown == NetifLinkDown /\ UNCHANGED others

Tick == TickNet /\ UNCHANGED others

Next ==
    \/ ApiSetServiceCallback
    \/ ApiInit
    \/ ApiConnect
    \/ ApiStartListener
    \/ ApiStopListener
    \/ ApiCheckConnection
    \/ ApiDisconnect
    \/ ApiTakeResult
    \/ StepConnectStart
    \/ StepConnectLoop
    \/ StepConnectService
    \/ StepConnectInspect
    \/ StepConnectSleep
    \/ StepConnectTimeout
    \/ StepStartListenerCommit
    \/ StepStopListenerCommit
    \/ StepDisconnectStopCommit
    \/ StepDisconnectLeave
    \/ EnvStageKitPacket
    \/ EnvDriverEvent
    \/ EnvNetifLinkDown
    \/ Tick

Spec == Init /\ [][Next]_vars

\* the steps of a connect call in progress are taken, and time advances
\* while the polling loop runs
SpecLive == Spec /\ WF_vars(ConnectSteps) /\ SF_vars(Tick)

----------------------------------------------------------------------------
(* SpecCodec: rb3e_parse_stagekit on bounded buffers *)

\* the bytes tried at C offset i: the byte of a StageKit packet and others
ByteChoices(i) ==
    CASE i = 0 -> {RB3E_MAGIC_BYTE0, 0}
      [] i = 1 -> {RB3E_MAGIC_BYTE1, RB3E_MAGIC_BYTE0}
      [] i = 2 -> {RB3E_MAGIC_BYTE2, 255}
      [] i = 3 -> {RB3E_MAGIC_BYTE3, 101}
      [] i = 4 -> {0, RB3E_EVENT_STAGEKIT}
      [] i = 5 -> {RB3E_EVENT_STAGEKIT, 0, 7}
      [] i = 6 -> {2, RB3E_EVENT_STAGEKIT}
      [] i = 7 -> {1, RB3E_EVENT_STAGEKIT}
      [] i = 8 -> {1, 255}
      [] i = 9 -> {32, 128}
      [] OTHER -> {0, 9}

RECURSIVE BuffersOfLen(_)
BuffersOfLen(n) ==
    IF n = 0 THEN {<<>>}
    ELSE {Append(b, x) : b \in BuffersOfLen(n - 1), x \in ByteChoices(n - 1)}

InitCodec ==
    /\ InitNet
    /\ mainpc = "off"
    /\ attempt = 0
    /\ wifi_is_connected = FALSE
    /\ wifi_check_age = 0
    /\ InitPolicy
    /\ \E n \in 0..MaxLen : buf \in BuffersOfLen(n)
    /\ cpc = "input"
    /\ parsed = [ok |-> FALSE]
    /\ TelOff
    /\ DhcpOff
    /\ DiscOff
    /\ LockOff
    /\ CmdBoot

Decode ==
    /\ cpc = "input"
    /\ parsed' = rb3e_parse_stagekit(buf, Len(buf))
    /\ cpc' = "done"
    /\ UNCHANGED <<buf, netvars, callvars, drvvars, obsvars, mainvars, policyvars>>
    /\ UNCHANGED <<telvars, dhcpvars, discvars, lockvars, cmdvars>>

NextCodec == Decode

SpecCodec == InitCodec /\ [][NextCodec]_vars

----------------------------------------------------------------------------
(* SpecTel: the network module with its discovery / telemetry service,    *)
(* under an arbitrary caller that registers no service callback, on a     *)
(* network that accepts the association request and whose link is either  *)
(* up or lost; the command PCB can always be allocated                    *)

telrest == <<mainvars, policyvars, codecvars, dhcpvars, discvars, lockvars, cmdvars>>

InitTel ==
    /\ InitNet
    /\ mainpc = "off"
    /\ attempt = 0
    /\ wifi_is_connected = FALSE
    /\ wifi_check_age = 0
    /\ InitPolicy
    /\ CodecOff
    /\ DhcpOff
    /\ DiscOff
    /\ LockOff
    /\ CmdBoot
    /\ \E cfg \in NetifConfigs :
          netif_ip4_addr = cfg.ip /\ netif_ip4_netmask = cfg.nm
    /\ tx = <<>>
    /\ tx_err = <<>>
    /\ pbuf_null = FALSE
    /\ disc_from = NoAddr

\* the latest discovery sender is remembered for as long as the module
\* stays Listening with a telemetry endpoint
KeepPeer ==
    disc_from' = (IF net_state' = NETWORK_STATE_LISTENING /\ udp_telemetry'
                  THEN disc_from ELSE NoAddr)

TelInit ==
    /\ network_init(TRUE)
    /\ KeepPeer
    /\ UNCHANGED <<netif_ip4_addr, netif_ip4_netmask, tx, tx_err, pbuf_null, telrest>>

TelConnect ==
    /\ link_cb_set /\ network_connect_wifi
    /\ KeepPeer
    /\ UNCHANGED <<netif_ip4_addr, netif_ip4_netmask, tx, tx_err, pbuf_null, telrest>>

TelStartListener ==
    /\ link_cb_set
    /\ \E new2 \in BOOLEAN : network_start_listener(TRUE, TRUE, new2)
    /\ KeepPeer
    /\ UNCHANGED <<netif_ip4_addr, netif_ip4_netmask, tx, tx_err, pbuf_null, telrest>>

TelStopListener ==
    /\ link_cb_set /\ network_stop_listener
    /\ KeepPeer
    /\ UNCHANGED <<netif_ip4_addr, netif_ip4_netmask, tx, tx_err, pbuf_null, telrest>>

TelCheckConnection ==
    /\ link_cb_set /\ network_check_connection
    /\ KeepPeer
    /\ UNCHANGED <<netif_ip4_addr, netif_ip4_netmask, tx, tx_err, pbuf_null, telrest>>

TelDisconnect ==
    /\ link_cb_set /\ network_disconnect
    /\ KeepPeer
    /\ UNCHANGED <<netif_ip4_addr, netif_ip4_netmask, tx, tx_err, pbuf_null, telrest>>

TelSendTelemetry ==
    /\ link_cb_set
    /\ \E alloc \in BOOLEAN, err_ok \in SendResults :
          network_send_telemetry(alloc, err_ok)
    /\ UNCHANGED <<netif_ip4_addr, netif_ip4_netmask, disc_from, telrest>>

TelDashboardDiscovered ==
    /\ link_cb_set /\ network_dashboard_discovered
    /\ UNCHANGED <<telvars, telrest>>

TelTakeResult ==
    /\ TakeResult
    /\ tx' = <<>>
    /\ tx_err' = <<>>
    /\ pbuf_null' = FALSE
    /\ UNCHANGED <<netif_ip4_addr, netif_ip4_netmask, disc_from, telrest>>

TelConnectStart ==
    /\ ConnectStart(0)
    /\ KeepPeer
    /\ UNCHANGED <<netif_ip4_addr, netif_ip4_netmask, tx, tx_err, pbuf_null, telrest>>

TelConnectLoop == ConnectLoop /\ UNCHANGED <<telvars, telrest>>

TelConnectService == ConnectService /\ UNCHANGED <<telvars, telrest>>

TelConnectInspect ==
    /\ ConnectInspect
    /\ KeepPeer
    /\ UNCHANGED <<netif_ip4_addr, netif_ip4_netmask, tx, tx_err, pbuf_null, telrest>>

TelConnectSleep == ConnectSleep /\ UNCHANGED <<telvars, telrest>>

TelConnectTimeout ==
    /\ ConnectTimeout
    /\ KeepPeer
    /\ UNCHANGED <<netif_ip4_addr, netif_ip4_netmask, tx, tx_err, pbuf_null, telrest>>

TelStartListenerCommit ==
    /\ StartListenerCommit
    /\ KeepPeer
    /\ UNCHANGED <<netif_ip4_addr, netif_ip4_netmask, tx, tx_err, pbuf_null, telrest>>

TelStopListenerCommit ==
    /\ StopListenerCommit
    /\ KeepPeer
    /\ UNCHANGED <<netif_ip4_addr, netif_ip4_netmask, tx, tx_err, pbuf_null, telrest>>

TelDisconnectStopCommit ==
    /\ DisconnectStopCommit
    /\ KeepPeer
    /\ UNCHANGED <<netif_ip4_addr, netif_ip4_netmask, tx, tx_err, pbuf_null, telrest>>

TelDisconnectLeave ==
    /\ DisconnectLeave
    /\ KeepPeer
    /\ UNCHANGED <<netif_ip4_addr, netif_ip4_netmask, tx, tx_err, pbuf_null, telrest>>

TelStageKitPacket ==
    /\ \E p \in CommandPackets : udp_stagekit_callback(p)
    /\ UNCHANGED <<telvars, telrest>>

\* a datagram on the telemetry port; a discovery message received while
\* Listening with a telemetry endpoint makes its sender the latest one
TelTelemetryPacket ==
    /\ \E p \in DiscoveryPayloads, addr \in Peers :
          /\ udp_telemetry_callback(p, addr)
          /\ disc_from' =
                (IF /\ json_contains(p, Len(p), KeyType, ValueDiscovery)
                    /\ net_state = NETWORK_STATE_LISTENING /\ udp_telemetry
                 THEN addr ELSE disc_from)
    /\ UNCHANGED <<netif_ip4_addr, netif_ip4_netmask, tx, tx_err, pbuf_null, telrest>>

TelDriverEvent ==
    /\ \E s \in {CYW43_LINK_UP, CYW43_LINK_DOWN} : DriverEvent(s)
    /\ KeepPeer
    /\ UNCHANGED <<netif_ip4_addr, netif_ip4_netmask, tx, tx_err, pbuf_null, telrest>>

TelNetifLinkDown ==
    /\ NetifLinkDown
    /\ KeepPeer
    /\ UNCHANGED <<netif_ip4_addr, netif_ip4_netmask, tx, tx_err, pbuf_null, telrest>>

TelTick == TickNet /\ UNCHANGED <<telvars, telrest>>

NextTel ==
    \/ TelInit
    \/ TelConnect
    \/ TelStartListener
    \/ TelStopListener
    \/ TelCheckConnection
    \/ TelDisconnect
    \/ TelSendTelemetry
    \/ TelDashboardDiscovered
    \/ TelTakeResult
    \/ TelConnectStart
    \/ TelConnectLoop
    \/ TelConnectService
    \/ TelConnectInspect
    \/ TelConnectSleep
    \/ TelConnectTimeout
    \/ TelStartListenerCommit
    \/ TelStopListenerCommit
    \/ TelDisconnectStopCommit
    \/ TelDisconnectLeave
    \/ TelStageKitPacket
    \/ TelTelemetryPacket
    \/ TelDriverEvent
    \/ TelNetifLinkDown
    \/ TelTick

SpecTel == InitTel /\ [][NextTel]_vars

----------------------------------------------------------------------------
(* SpecDhcp: the DHCP server under arbitrary clients *)

dhcprest == <<netvars, callvars, drvvars, obsvars, mainvars, policyvars,
              codecvars, telvars, discvars, lockvars, cmdvars>>

InitDhcp ==
    /\ InitNet
    /\ mainpc = "off"
    /\ attempt = 0
    /\ wifi_is_connected = FALSE
    /\ wifi_check_age = 0
    /\ InitPolicy
    /\ CodecOff
    /\ TelOff
    /\ DhcpOff
    /\ DiscOff
    /\ LockOff
    /\ CmdBoot

DhcpServerInit ==
    /\ \E cfg \in ServerConfigs, new \in BOOLEAN : dhcp_server_init(cfg.ip, cfg.nm, new)
    /\ UNCHANGED dhcprest

DhcpServerDeinit == dhcp_server_deinit /\ UNCHANGED dhcprest

DhcpRecv ==
    /\ \E msg \in DhcpDatagrams, alloc \in BOOLEAN : dhcp_recv_cb(msg, alloc)
    /\ UNCHANGED dhcprest

DhcpRecvDone == DhcpDone /\ UNCHANGED dhcprest

NextDhcp ==
    \/ DhcpServerInit
    \/ DhcpServerDeinit
    \/ DhcpRecv
    \/ DhcpRecvDone

SpecDhcp == InitDhcp /\ [][NextDhcp]_vars

----------------------------------------------------------------------------
(* SpecDisc: udp_telemetry_callback on a module that is Listening with a   *)
(* telemetry endpoint, for datagrams of many shapes                        *)

\* n bytes that belong to no marker
Filler(n) == [i \in 1..n |-> " "]

\* the datagrams offered to the telemetry endpoint: the marker alone, inside
\* other bytes, cut short at either end, with two spaces or with the space
\* before the colon, after a false start, and in datagrams of 255 and 256
\* bytes
DiscDatagrams ==
    LET marker == JsonPattern(KeyType, ValueDiscovery, FALSE)
        marker_sp == JsonPattern(KeyType, ValueDiscovery, TRUE)
    IN DiscoveryPayloads \cup
       { marker,
         marker_sp,
         <<"x", "y">> \o marker_sp \o <<"z">>,
         SubSeq(marker, 1, Len(marker) - 1),
         Tail(marker),
         <<Quote>> \o KeyType \o <<Quote, ":", " ", " ", Quote>>
             \o ValueDiscovery \o <<Quote>>,
         <<Quote>> \o KeyType \o <<Quote, " ", ":", Quote>>
             \o ValueDiscovery \o <<Quote>>,
         SubSeq(marker, 1, 9) \o <<"x">> \o marker,
         Filler(255 - Len(marker)) \o marker,
         Filler(256 - Len(marker)) \o marker,
         marker \o Filler(256 - Len(marker)),
         Filler(255) }

\* the module after network_init, a successful network_connect_wifi and a
\* network_start_listener that bound both endpoints
InitDisc ==
    /\ net_state = NETWORK_STATE_LISTENING
    /\ wifi_fail_reason = WIFI_FAIL_NONE
    /\ udp_listener = TRUE
    /\ udp_telemetry = TRUE
    /\ packet_callback = TRUE
    /\ service_callback = FALSE
    /\ dashboard_discovered = FALSE
    /\ dashboard_addr = NoAddr
    /\ discovery_age = 0
    /\ net_stats = [packets_received |-> 0, packets_processed |-> 0,
                    packets_invalid |-> 0, telemetry_sent |-> 0,
                    discovery_received |-> 0]
    /\ pc = "idle"
    /\ waited = 0
    /\ ret = FALSE
    /\ link = CYW43_LINK_UP
    /\ assoc = TRUE
    /\ netif_link_up = TRUE
    /\ link_cb_set = TRUE
    /\ cmd_port_bound = TRUE
    /\ tel_port_bound = TRUE
    /\ op = "none"
    /\ fed_since_inspect = FALSE
    /\ svc_since_inspect = FALSE
    /\ left_in_call = FALSE
    /\ mainpc = "off"
    /\ attempt = 0
    /\ wifi_is_connected = FALSE
    /\ wifi_check_age = 0
    /\ InitPolicy
    /\ CodecOff
    /\ \E cfg \in NetifConfigs :
          netif_ip4_addr = cfg.ip /\ netif_ip4_netmask = cfg.nm
    /\ tx = <<>>
    /\ tx_err = <<>>
    /\ pbuf_null = FALSE
    /\ disc_from = NoAddr
    /\ DhcpOff
    /\ DiscOff
    /\ LockOff
    /\ CmdBoot

discrest == <<mainvars, policyvars, codecvars, telvars, dhcpvars, lockvars, cmdvars>>

DiscRecv ==
    /\ rx = <<>>
    /\ \E p \in DiscDatagrams, addr \in Peers :
          /\ udp_telemetry_callback(p, addr)
          /\ rx' = <<[payload |-> p, addr |-> addr]>>
    /\ UNCHANGED discrest

\* the end of udp_telemetry_callback: pbuf_free(p)
DiscFree ==
    /\ rx # <<>>
    /\ rx' = <<>>
    /\ UNCHANGED <<netvars, callvars, drvvars, obsvars, discrest>>

DiscTick == TickNet /\ UNCHANGED <<rx, discrest>>

NextDisc ==
    \/ DiscRecv
    \/ DiscFree
    \/ DiscTick

SpecDisc == InitDisc /\ [][NextDisc]_vars

----------------------------------------------------------------------------
(* SpecLock: the listener, telemetry and disconnect operations of the main *)
(* loop taken one statement at a time, with the lwIP lock.  A position     *)
(* "Ln" is the statement at line n of network.c; the discovery callback    *)
(* runs in the background context, which the lock keeps out.  The results  *)
(* of the calls are not observed here.                                     *)

sockvars == <<udp_listener, udp_telemetry, cmd_port_bound, tel_port_bound>>
datavars == <<net_state, packet_callback, dashboard_discovered, net_stats>>
assocvars == <<link, assoc, left_in_call>>

\* the main loop executes the statement at position 'at': ev is what the
\* statement does, var the variable it assigns, 'to' the next position
Stmt(at, ev, var, to) ==
    /\ pc = at
    /\ pc' = to
    /\ lk_event' = [ev |-> ev, var |-> var]
    /\ lwip_locked' = (IF ev = "lwip_begin" THEN TRUE
                       ELSE IF ev = "lwip_end" THEN FALSE
                       ELSE lwip_locked)
    /\ UNCHANGED lk_refreshed
    /\ UNCHANGED <<wifi_fail_reason, service_callback, dashboard_addr, discovery_age>>
    /\ UNCHANGED <<waited, ret, netif_link_up, link_cb_set>>
    /\ UNCHANGED <<op, fed_since_inspect, svc_since_inspect>>

\* a statement that assigns none of the variables of the model
Plain(at, ev, to) ==
    /\ Stmt(at, ev, "none", to)
    /\ UNCHANGED <<sockvars, datavars, assocvars>>

\* network_start_listener(callback) with a callback
StartListenerStmt ==
    \/ Plain("L351", "test",
             IF net_state # NETWORK_STATE_CONNECTED THEN "returned" ELSE "L356")
    \/ /\ Stmt("L356", "assign", "packet_callback", "L359")
       /\ packet_callback' = TRUE
       /\ UNCHANGED <<net_state, dashboard_discovered, net_stats, sockvars, assocvars>>
    \/ Plain("L359", "lwip_begin", "L366")
    \/ \E new \in BOOLEAN :
          /\ Stmt("L366", "udp_new", "udp_listener", IF new THEN "L374" ELSE "L368")
          /\ udp_listener' = new
          /\ UNCHANGED <<udp_telemetry, cmd_port_bound, tel_port_bound, datavars, assocvars>>
    \/ Plain("L368", "lwip_end", "returned")
    \/ /\ Stmt("L374", "udp_bind", "none", IF cmd_port_bound THEN "L377" ELSE "L384")
       /\ cmd_port_bound' = TRUE
       /\ UNCHANGED <<udp_listener, udp_telemetry, tel_port_bound, datavars, assocvars>>
    \/ Plain("L377", "udp_remove", "L378")
    \/ /\ Stmt("L378", "assign", "udp_listener", "L379")
       /\ udp_listener' = FALSE
       /\ UNCHANGED <<udp_telemetry, cmd_port_bound, tel_port_bound, datavars, assocvars>>
    \/ Plain("L379", "lwip_end", "returned")
    \/ Plain("L384", "udp_recv", "L394")
    \/ \E new \in BOOLEAN :
          /\ Stmt("L394", "udp_new", "udp_telemetry", IF new THEN "L404" ELSE "L416")
          /\ udp_telemetry' = new
          /\ UNCHANGED <<udp_listener, cmd_port_bound, tel_port_bound, datavars, assocvars>>
    \* udp_bind and, should it fail, lines 407 and 408
    \/ /\ Stmt("L404", "udp_bind", IF tel_port_bound THEN "udp_telemetry" ELSE "none",
               IF tel_port_bound THEN "L416" ELSE "L411")
       /\ udp_telemetry' = ~tel_port_bound
       /\ tel_port_bound' = TRUE
       /\ UNCHANGED <<udp_listener, cmd_port_bound, datavars, assocvars>>
    \/ Plain("L411", "udp_recv", "L416")
    \/ Plain("L416", "lwip_end", "L418")
    \/ /\ Stmt("L418", "assign", "net_state", "returned")
       /\ net_state' = NETWORK_STATE_LISTENING
       /\ UNCHANGED <<packet_callback, dashboard_discovered, net_stats, sockvars, assocvars>>

\* network_stop_listener, called by the main loop or by network_disconnect
StopListenerStmt ==
    \/ Plain("L428", "lwip_begin", "L430")
    \/ Plain("L430", "test", IF udp_listener THEN "L431" ELSE "L435")
    \/ /\ Stmt("L431", "udp_remove", "none", "L432")
       /\ cmd_port_bound' = FALSE
       /\ UNCHANGED <<udp_listener, udp_telemetry, tel_port_bound, datavars, assocvars>>
    \/ /\ Stmt("L432", "assign", "udp_listener", "L435")
       /\ udp_listener' = FALSE
       /\ UNCHANGED <<udp_telemetry, cmd_port_bound, tel_port_bound, datavars, assocvars>>
    \/ Plain("L435", "test", IF udp_telemetry THEN "L436" ELSE "L440")
    \/ /\ Stmt("L436", "udp_remove", "none", "L437")
       /\ tel_port_bound' = FALSE
       /\ UNCHANGED <<udp_listener, udp_telemetry, cmd_port_bound, datavars, assocvars>>
    \/ /\ Stmt("L437", "assign", "udp_telemetry", "L440")
       /\ udp_telemetry' = FALSE
       /\ UNCHANGED <<udp_listener, cmd_port_bound, tel_port_bound, datavars, assocvars>>
    \/ Plain("L440", "lwip_end", "L442")
    \/ /\ Stmt("L442", "assign", "packet_callback", "L443")
       /\ packet_callback' = FALSE
       /\ UNCHANGED <<net_state, dashboard_discovered, net_stats, sockvars, assocvars>>
    \/ /\ Stmt("L443", "assign", "dashboard_discovered", "L445")
       /\ dashboard_discovered' = FALSE
       /\ UNCHANGED <<net_state, packet_callback, net_stats, sockvars, assocvars>>
    \/ Plain("L445", "test",
             IF net_state = NETWORK_STATE_LISTENING THEN "L446"
             ELSE IF op = "disconnect" THEN "L618" ELSE "returned")
    \/ /\ Stmt("L446", "assign", "net_state",
               IF op = "disconnect" THEN "L618" ELSE "returned")
       /\ net_state' = NETWORK_STATE_CONNECTED
       /\ UNCHANGED <<packet_callback, dashboard_discovered, net_stats, sockvars, assocvars>>

\* network_send_telemetry
SendTelemetryStmt ==
    \/ Plain("L454", "test",
             IF ~udp_telemetry \/ net_state # NETWORK_STATE_LISTENING
             THEN "returned" ELSE "L459")
    \/ Plain("L459", "test",
             IF dashboard_discovered /\ DiscoveryStale THEN "L463" ELSE "L489")
    \/ /\ Stmt("L463", "assign", "dashboard_discovered", "L489")
       /\ dashboard_discovered' = FALSE
       /\ UNCHANGED <<net_state, packet_callback, net_stats, sockvars, assocvars>>
    \/ Plain("L489", "lwip_begin", "L492")
    \/ \E alloc \in BOOLEAN :
          Plain("L492", "pbuf_alloc", IF alloc THEN "L504" ELSE "L494")
    \/ Plain("L494", "lwip_end", "returned")
    \/ Plain("L504", "test",
             IF dashboard_discovered THEN "L506"
             ELSE IF netif_default THEN "L516" ELSE "L521")
    \/ Plain("L506", "udp_sendto", "L524")
    \/ Plain("L516", "udp_sendto", "L521")
    \/ Plain("L521", "udp_sendto", "L524")
    \/ Plain("L524", "pbuf_free", "L526")
    \/ Plain("L526", "lwip_end", "L528")
    \/ \E err_ok \in BOOLEAN :
          /\ Stmt("L528", "assign", "net_stats", "returned")
          /\ net_stats' = (IF err_ok
                           THEN [net_stats EXCEPT !.telemetry_sent = Incr(@)]
                           ELSE net_stats)
          /\ UNCHANGED <<net_state, packet_callback, dashboard_discovered,
                         sockvars, assocvars>>

\* network_disconnect after its call of network_stop_listener
DisconnectStmt ==
    \/ /\ Stmt("L618", "cyw43_wifi_leave", "none", "L620")
       /\ cyw43_wifi_leave
       /\ UNCHANGED <<sockvars, datavars>>
    \/ /\ Stmt("L620", "assign", "net_state", "L621")
       /\ net_state' = NETWORK_STATE_DISCONNECTED
       /\ UNCHANGED <<packet_callback, dashboard_discovered, net_stats, sockvars, assocvars>>
    \/ /\ Stmt("L621", "assign", "dashboard_discovered", "returned")
       /\ dashboard_discovered' = FALSE
       /\ UNCHANGED <<net_state, packet_callback, net_stats, sockvars, assocvars>>

\* the first statement of each operation
EntryOf(name) ==
    CASE name = "start_listener" -> "L351"
      [] name = "stop_listener" -> "L428"
      [] name = "send_telemetry" -> "L454"
      [] name = "disconnect" -> "L428"

lockrest == <<mainvars, policyvars, codecvars, telvars, dhcpvars, discvars, cmdvars>>

LockCall ==
    /\ \E name \in {"start_listener", "stop_listener", "send_telemetry", "disconnect"} :
          /\ Called(name)
          /\ pc' = EntryOf(name)
    /\ lk_event' = NoEvent
    /\ lk_refreshed' = FALSE
    /\ UNCHANGED <<netvars, waited, ret, drvvars>>
    /\ UNCHANGED <<fed_since_inspect, svc_since_inspect, left_in_call>>
    /\ UNCHANGED <<lwip_locked, lockrest>>

LockStep ==
    /\ \/ StartListenerStmt
       \/ StopListenerStmt
       \/ SendTelemetryStmt
       \/ DisconnectStmt
    /\ UNCHANGED lockrest

LockTakeResult ==
    /\ TakeResult
    /\ lk_event' = NoEvent
    /\ lk_refreshed' = FALSE
    /\ UNCHANGED <<lwip_locked, lockrest>>

\* a datagram reaches udp_telemetry_callback while the lock is free
LockDiscovery ==
    /\ ~lwip_locked
    /\ \E p \in DiscoveryPayloads, addr \in Peers : udp_telemetry_callback(p, addr)
    /\ lk_refreshed' = (\/ lk_refreshed
                        \/ /\ pc # "idle"
                           /\ net_stats'.discovery_received > 0
                           /\ dashboard_discovered'
                           /\ discovery_age' = 0
                           /\ \/ ~dashboard_discovered
                              \/ discovery_age > 0)
    /\ UNCHANGED <<lwip_locked, lk_event, lockrest>>

LockTick == TickNet /\ UNCHANGED <<lockvars, lockrest>>

\* the module after network_init and a successful network_connect_wifi:
\* with no endpoints, or with the endpoints of a listener that was running
\* when the link went down before the reconnect
InitLock ==
    /\ net_state = NETWORK_STATE_CONNECTED
    /\ wifi_fail_reason = WIFI_FAIL_NONE
    /\ \E stale \in BOOLEAN :
          /\ udp_listener = stale
          /\ udp_telemetry = stale
          /\ packet_callback = stale
          /\ cmd_port_bound = stale
          /\ tel_port_bound = stale
    /\ service_callback = FALSE
    /\ dashboard_discovered = FALSE
    /\ dashboard_addr = NoAddr
    /\ discovery_age = 0
    /\ net_stats = [packets_received |-> 0, packets_processed |-> 0,
                    packets_invalid |-> 0, telemetry_sent |-> 0,
                    discovery_received |-> 0]
    /\ pc = "idle"
    /\ waited = 0
    /\ ret = FALSE
    /\ link = CYW43_LINK_UP
    /\ assoc = TRUE
    /\ netif_link_up = TRUE
    /\ link_cb_set = TRUE
    /\ op = "none"
    /\ fed_since_inspect = FALSE
    /\ svc_since_inspect = FALSE
    /\ left_in_call = FALSE
    /\ mainpc = "off"
    /\ attempt = 0
    /\ wifi_is_connected = FALSE
    /\ wifi_check_age = 0
    /\ InitPolicy
    /\ CodecOff
    /\ \E cfg \in NetifConfigs :
          netif_ip4_addr = cfg.ip /\ netif_ip4_netmask = cfg.nm
    /\ tx = <<>>
    /\ tx_err = <<>>
    /\ pbuf_null = FALSE
    /\ disc_from = NoAddr
    /\ DhcpOff
    /\ DiscOff
    /\ LockOff
    /\ CmdBoot

NextLock ==
    \/ LockCall
    \/ LockStep
    \/ LockTakeResult
    \/ LockDiscovery
    \/ LockTick

SpecLock == InitLock /\ [][NextLock]_vars

----------------------------------------------------------------------------
(* SpecCmd: the command path of the main loop, statement by statement,     *)
(* with on_stagekit_packet called from the command endpoint's callback     *)

cmdrest == <<mainvars, policyvars, codecvars, telvars, dhcpvars, discvars, lockvars>>

\* save_and_disable_interrupts() leaves interrupts enabled
save_and_disable_interrupts_Enabled == FALSE

\* save_and_disable_interrupts(): whether interrupts are disabled afterwards
save_and_disable_interrupts == TRUE

\* a comparison that never finds the timeout passed
SafetyExpired_Never(since) == FALSE

\* absolute_time_diff_us(last_packet_time, now) > SAFETY_TIMEOUT_MS * 1000
SafetyExpired(since) == since * TickMs > SAFETY_TIMEOUT_MS

\* what usb_send_stagekit_command(l, r) hands to the peripheral
UsbCommand(l, r) == <<l, r>>

\* on_stagekit_packet(l, r)
on_stagekit_packet(l, r) ==
    /\ pending_left_weight' = l
    /\ pending_right_weight' = r
    /\ stagekit_command_pending' = TRUE

\* the main loop moves from statement 'at' to statement 'to'
CmdAt(at, to) ==
    /\ cmdpc = at
    /\ cmdpc' = to
    /\ UNCHANGED <<netvars, callvars, drvvars, obsvars, cmdrest>>
    /\ UNCHANGED latest

\* now = get_absolute_time(); watchdog_update(); usb_host_task(), in which
\* the peripheral may attach or detach
CmdLoopTop ==
    /\ CmdAt("M349", "M359")
    /\ since_packet' = Min(since_packet + now_age, SafetyAgeCap)
    /\ now_age' = 0
    /\ \E up \in BOOLEAN : usb_up' = up
    /\ usb_out' = NoCmd
    /\ UNCHANGED <<stagekit_command_pending, pending_left_weight,
                   pending_right_weight, lights_active, cmd_left, cmd_right,
                   irq_off, unread, taken>>

\* if (stagekit_command_pending)
CmdTest ==
    /\ CmdAt("M359", IF stagekit_command_pending THEN "M362" ELSE "M406")
    /\ UNCHANGED <<now_age, stagekit_command_pending, pending_left_weight,
                   pending_right_weight, lights_active, cmd_left, cmd_right,
                   irq_off, since_packet, usb_up, usb_out, unread, taken>>

\* the read of the pending command, lines 362 to 366
CmdRead ==
    \/ /\ CmdAt("M362", "M363")
       /\ irq_off' = save_and_disable_interrupts
       /\ UNCHANGED <<now_age, stagekit_command_pending, pending_left_weight,
                      pending_right_weight, lights_active, cmd_left, cmd_right,
                      since_packet, usb_up, usb_out, unread, taken>>
    \/ /\ CmdAt("M363", "M364")
       /\ stagekit_command_pending' = FALSE
       /\ unread' = FALSE
       /\ taken' = latest
       /\ UNCHANGED <<now_age, pending_left_weight, pending_right_weight, lights_active,
                      cmd_left, cmd_right, irq_off, since_packet, usb_up, usb_out>>
    \/ /\ CmdAt("M364", "M365")
       /\ cmd_left' = pending_left_weight
       /\ UNCHANGED <<now_age, stagekit_command_pending, pending_left_weight,
                      pending_right_weight, lights_active, cmd_right, irq_off,
                      since_packet, usb_up, usb_out, unread, taken>>
    \/ /\ CmdAt("M365", "M366")
       /\ cmd_right' = pending_right_weight
       /\ UNCHANGED <<now_age, stagekit_command_pending, pending_left_weight,
                      pending_right_weight, lights_active, cmd_left, irq_off,
                      since_packet, usb_up, usb_out, unread, taken>>
    \/ /\ CmdAt("M366", "M369")
       /\ irq_off' = FALSE
       /\ UNCHANGED <<now_age, stagekit_command_pending, pending_left_weight,
                      pending_right_weight, lights_active, cmd_left, cmd_right,
                      since_packet, usb_up, usb_out, unread, taken>>

\* was_active = true; last_packet_time = now; then the command is given to
\* the peripheral if it is connected, lines 368 to 374
CmdForward ==
    \/ /\ CmdAt("M369", "M371")
       /\ since_packet' = 0
       /\ UNCHANGED <<now_age, stagekit_command_pending, pending_left_weight,
                      pending_right_weight, lights_active, cmd_left, cmd_right,
                      irq_off, usb_up, usb_out, unread, taken>>
    \/ /\ CmdAt("M371", "M406")
       /\ IF usb_up
          THEN /\ usb_out' = UsbCommand(cmd_left, cmd_right)
               /\ lights_active' = TRUE
          ELSE UNCHANGED <<usb_out, lights_active>>
       /\ UNCHANGED <<now_age, stagekit_command_pending, pending_left_weight,
                      pending_right_weight, cmd_left, cmd_right, irq_off,
                      since_packet, usb_up, unread, taken>>

\* the safety timeout, lines 406 to 412, and the rest of the iteration
CmdSafety ==
    /\ CmdAt("M406", "M349")
    /\ IF lights_active /\ SafetyExpired(since_packet)
       THEN /\ usb_out' = (IF usb_up THEN UsbCommand(0, SK_ALL_OFF) ELSE usb_out)
            /\ lights_active' = FALSE
       ELSE UNCHANGED <<usb_out, lights_active>>
    /\ UNCHANGED <<now_age, stagekit_command_pending, pending_left_weight,
                   pending_right_weight, cmd_left, cmd_right, irq_off,
                   since_packet, usb_up, unread, taken>>

\* udp_stagekit_callback for a datagram on the command port, in interrupt
\* context: it calls on_stagekit_packet for a valid command packet
CmdRecv ==
    /\ ~irq_off
    /\ \E p \in CommandPackets :
          /\ udp_stagekit_callback(p)
          /\ LET r == rb3e_parse_stagekit(p, Len(p))
             IN IF packet_callback /\ Len(p) >= 10 /\ r.ok
                THEN /\ on_stagekit_packet(r.left, r.right)
                     /\ latest' = <<r.left, r.right>>
                     /\ unread' = TRUE
                ELSE UNCHANGED <<stagekit_command_pending, pending_left_weight,
                                 pending_right_weight, latest, unread>>
    /\ UNCHANGED <<lights_active, cmdpc, cmd_left, cmd_right, irq_off,
                   since_packet, now_age, usb_up, usb_out, taken, cmdrest>>

\* one tick of the clock
CmdTick ==
    /\ TickNet
    /\ now_age' = Min(now_age + 1, SafetyAgeCap)
    /\ UNCHANGED <<stagekit_command_pending, pending_left_weight,
                   pending_right_weight, lights_active, cmdpc, cmd_left,
                   cmd_right, irq_off, since_packet, usb_up, usb_out, latest,
                   unread, taken, cmdrest>>

NextCmd ==
    \/ CmdLoopTop
    \/ CmdTest
    \/ CmdRead
    \/ CmdForward
    \/ CmdSafety
    \/ CmdRecv
    \/ CmdTick

\* the main loop is entered with the listener started
SpecCmd == InitDisc /\ [][NextCmd]_vars

----------------------------------------------------------------------------
(* SpecMain: the network module under main() *)

InitMain ==
    /\ InitNet
    /\ mainpc = "boot"
    /\ attempt = 0
    /\ wifi_is_connected = FALSE
    /\ wifi_check_age = 0
    /\ InitPolicy
    /\ CodecOff
    /\ TelOff
    /\ DhcpOff
    /\ DiscOff
    /\ LockOff
    /\ CmdBoot

\* a call of network_connect_wifi made by the retry policy
AutoConnect ==
    /\ network_connect_wifi
    /\ auto_attempts' = (IF ConnectIsNoop(net_state) THEN auto_attempts
                         ELSE Min(auto_attempts + 1, MaxAttempts))

\* network_set_service_callback(usb_host_task)
MainSetCallback ==
    /\ mainpc = "boot"
    /\ network_set_service_callback(TRUE)
    /\ mainpc' = "boot_cb_ret"
    /\ UNCHANGED <<attempt, wifi_is_connected, wifi_check_age, policyvars, harnessvars>>

MainSetCallbackRet ==
    /\ mainpc = "boot_cb_ret"
    /\ TakeResult
    /\ mainpc' = "init"
    /\ UNCHANGED <<attempt, wifi_is_connected, wifi_check_age, policyvars, harnessvars>>

\* network_init(&stored_wifi_cfg), the configuration having been loaded
MainInit ==
    /\ mainpc = "init"
    /\ network_init(TRUE)
    /\ mainpc' = "init_ret"
    /\ UNCHANGED <<attempt, wifi_is_connected, wifi_check_age, policyvars, harnessvars>>

\* error_loop(6) on failure; else wifi_is_connected = false and attempt = 1
MainInitRet ==
    /\ mainpc = "init_ret"
    /\ TakeResult
    /\ IF ret
       THEN mainpc' = "boot_try" /\ attempt' = 1 /\ wifi_is_connected' = FALSE
       ELSE mainpc' = "error_loop" /\ UNCHANGED <<attempt, wifi_is_connected>>
    /\ UNCHANGED <<wifi_check_age, policyvars, harnessvars>>

\* a loop condition that allows one attempt too many
BootLoopContinues_OneMore(a) == a <= WIFI_MAX_RETRIES + 1

\* the condition of the boot retry loop
BootLoopContinues(a) == a <= WIFI_MAX_RETRIES

\* the loop condition and network_connect_wifi() of one boot attempt
BootTry ==
    /\ mainpc = "boot_try"
    /\ IF BootLoopContinues(attempt)
       THEN /\ AutoConnect
            /\ mainpc' = "boot_ret"
            /\ UNCHANGED retry_delayed
       ELSE /\ pc = "idle"
            /\ mainpc' = "boot_done"
            /\ UNCHANGED <<netvars, callvars, drvvars, obsvars, policyvars>>
    /\ UNCHANGED <<attempt, wifi_is_connected, wifi_check_age, harnessvars>>

\* the result of a boot attempt: break, error_loop(8), or go on to the delay
BootRet ==
    /\ mainpc = "boot_ret"
    /\ TakeResult
    /\ retry_delayed' = FALSE
    /\ IF ret
       THEN /\ wifi_is_connected' = TRUE
            /\ auto_attempts' = 0
            /\ mainpc' = "boot_done"
            /\ UNCHANGED attempt
       ELSE /\ UNCHANGED <<wifi_is_connected, auto_attempts>>
            /\ IF wifi_fail_reason = WIFI_FAIL_BADAUTH
               THEN mainpc' = "error_loop" /\ UNCHANGED attempt
               ELSE IF attempt < WIFI_MAX_RETRIES
               THEN mainpc' = "boot_delay" /\ UNCHANGED attempt
               ELSE mainpc' = "boot_try" /\ attempt' = attempt + 1
    /\ UNCHANGED <<wifi_check_age, harnessvars>>

\* the WIFI_RETRY_DELAY_MS wait between two boot attempts, then attempt++
BootDelay ==
    /\ mainpc = "boot_delay"
    /\ retry_delayed' = TRUE
    /\ attempt' = attempt + 1
    /\ mainpc' = "boot_try"
    /\ UNCHANGED <<netvars, callvars, drvvars, obsvars>>
    /\ UNCHANGED <<wifi_is_connected, wifi_check_age, auto_attempts, harnessvars>>

\* after the loop: start the listener if connected, then initialise the timers
BootDone ==
    /\ mainpc = "boot_done"
    /\ IF wifi_is_connected
       THEN /\ \E new1 \in BOOLEAN, new2 \in BOOLEAN :
                  network_start_listener(TRUE, new1, new2)
            /\ mainpc' = "boot_listen_ret"
       ELSE /\ pc = "idle"
            /\ mainpc' = "loop"
            /\ UNCHANGED <<netvars, callvars, drvvars, obsvars>>
    /\ wifi_check_age' = 0
    /\ UNCHANGED <<attempt, wifi_is_connected, policyvars, harnessvars>>

BootListenRet ==
    /\ mainpc = "boot_listen_ret"
    /\ TakeResult
    /\ wifi_is_connected' = ret
    /\ mainpc' = "loop"
    /\ wifi_check_age' = 0
    /\ UNCHANGED <<attempt, policyvars, harnessvars>>

\* the periodic WiFi check of the main loop, when it is due
MainWifiCheck ==
    /\ mainpc = "loop"
    /\ wifi_check_age >= WifiCheckTicks
    /\ wifi_check_age' = 0
    /\ mainpc' = (IF network_wifi_connected THEN "wc_check" ELSE "wc_connect")
    /\ UNCHANGED <<netvars, callvars, drvvars, obsvars>>
    /\ UNCHANGED <<attempt, wifi_is_connected, policyvars, harnessvars>>

MainCheck ==
    /\ mainpc = "wc_check"
    /\ network_check_connection
    /\ mainpc' = "wc_check_ret"
    /\ UNCHANGED <<attempt, wifi_is_connected, wifi_check_age, policyvars, harnessvars>>

MainCheckRet ==
    /\ mainpc = "wc_check_ret"
    /\ TakeResult
    /\ IF ret
       THEN mainpc' = "loop" /\ UNCHANGED wifi_is_connected
       ELSE mainpc' = "wc_stop" /\ wifi_is_connected' = FALSE
    /\ UNCHANGED <<attempt, wifi_check_age, policyvars, harnessvars>>

MainStop ==
    /\ mainpc = "wc_stop"
    /\ network_stop_listener
    /\ mainpc' = "wc_stop_ret"
    /\ UNCHANGED <<attempt, wifi_is_connected, wifi_check_age, policyvars, harnessvars>>

MainStopRet ==
    /\ mainpc = "wc_stop_ret"
    /\ TakeResult
    /\ mainpc' = "wc_reconnect"
    /\ UNCHANGED <<attempt, wifi_is_connected, wifi_check_age, policyvars, harnessvars>>

\* network_connect_wifi() after "WiFi lost"
MainReconnect ==
    /\ mainpc = "wc_reconnect"
    /\ AutoConnect
    /\ mainpc' = "wc_reconnect_ret"
    /\ UNCHANGED <<attempt, wifi_is_connected, wifi_check_age, retry_delayed, harnessvars>>

\* network_connect_wifi() of the branch "Trying to connect WiFi..."
MainConnect ==
    /\ mainpc = "wc_connect"
    /\ AutoConnect
    /\ mainpc' = "wc_connect_ret"
    /\ UNCHANGED <<attempt, wifi_is_connected, wifi_check_age, retry_delayed, harnessvars>>

\* the result of a main-loop attempt, at either call
MainConnectRetAt(at) ==
    /\ mainpc = at
    /\ TakeResult
    /\ IF ret
       THEN /\ wifi_is_connected' = TRUE
            /\ auto_attempts' = 0
            /\ mainpc' = "wc_listen"
       ELSE /\ mainpc' = "loop"
            /\ UNCHANGED <<wifi_is_connected, auto_attempts>>
    /\ UNCHANGED <<attempt, wifi_check_age, retry_delayed, harnessvars>>

MainReconnectRet == MainConnectRetAt("wc_reconnect_ret")

MainConnectRet == MainConnectRetAt("wc_connect_ret")

\* network_start_listener(on_stagekit_packet) after a main-loop connect
MainListen ==
    /\ mainpc = "wc_listen"
    /\ \E new1 \in BOOLEAN, new2 \in BOOLEAN : network_start_listener(TRUE, new1, new2)
    /\ mainpc' = "wc_listen_ret"
    /\ UNCHANGED <<attempt, wifi_is_connected, wifi_check_age, policyvars, harnessvars>>

MainListenRet ==
    /\ mainpc = "wc_listen_ret"
    /\ TakeResult
    /\ mainpc' = "loop"
    /\ UNCHANGED <<attempt, wifi_is_connected, wifi_check_age, policyvars, harnessvars>>

\* one tick of the clock, seen by main() as well
TickMain ==
    /\ TickNet
    /\ wifi_check_age' = (IF mainpc \in {"off", "boot", "boot_cb_ret", "init", "init_ret",
                                         "boot_try", "boot_ret", "boot_delay",
                                         "boot_done", "boot_listen_ret", "error_loop"}
                          THEN wifi_check_age
                          ELSE Min(wifi_check_age + 1, WifiCheckTicks))
    /\ UNCHANGED <<mainpc, attempt, wifi_is_connected, policyvars, harnessvars>>

NextMain ==
    \/ MainSetCallback
    \/ MainSetCallbackRet
    \/ MainInit
    \/ MainInitRet
    \/ BootTry
    \/ BootRet
    \/ BootDelay
    \/ BootDone
    \/ BootListenRet
    \/ MainWifiCheck
    \/ MainCheck
    \/ MainCheckRet
    \/ MainStop
    \/ MainStopRet
    \/ MainReconnect
    \/ MainReconnectRet
    \/ MainConnect
    \/ MainConnectRet
    \/ MainListen
    \/ MainListenRet
    \/ StepConnectStart
    \/ StepConnectLoop
    \/ StepConnectService
    \/ StepConnectInspect
    \/ StepConnectSleep
    \/ StepConnectTimeout
    \/ StepStartListenerCommit
    \/ EnvDriverEvent
    \/ EnvNetifLinkDown
    \/ TickMain

SpecMain == InitMain /\ [][NextMain]_vars

\* the steps main() takes by itself
MainSteps ==
    \/ MainSetCallback
    \/ MainSetCallbackRet
    \/ MainInit
    \/ MainInitRet
    \/ BootTry
    \/ BootRet
    \/ BootDelay
    \/ BootDone
    \/ BootListenRet
    \/ MainWifiCheck
    \/ MainCheck
    \/ MainCheckRet
    \/ MainStop
    \/ MainStopRet
    \/ MainReconnect
    \/ MainReconnectRet
    \/ MainConnect
    \/ MainConnectRet
    \/ MainListen
    \/ MainListenRet
    \/ StepConnectStart
    \/ StepConnectLoop
    \/ StepConnectService
    \/ StepConnectInspect
    \/ StepConnectSleep
    \/ StepConnectTimeout
    \/ StepStartListenerCommit

\* main() is single-threaded and never blocks outside the bounded waits of
\* network_connect_wifi, and the clock advances
SpecMainLive == SpecMain /\ WF_vars(MainSteps) /\ WF_vars(TickMain)

----------------------------------------------------------------------------
(* Properties *)

ConnectPcs == {"start", "loop", "service", "inspect", "sleep", "timeout"}

\* C1: when network_connect_wifi has started an attempt and returns, its
\* result, the state and the failure reason match the outcome it observed:
\* link up -> true, Connected, None; network not found -> false, Error,
\* NoNetwork; bad authentication -> false, Error, BadAuth; general failure,
\* also of the association request itself -> false, Error, General; loop
\* exhausted -> false, Error, Timeout.  It returns from the loop on a
\* terminal status only, and reports Timeout only once the timeout is reached.
C1_ConnectOutcome ==
    [][ (pc \in ConnectPcs /\ pc' = "returned") =>
          \/ /\ pc = "inspect" /\ link = 3
             /\ ret' = TRUE
             /\ net_state' = "CONNECTED" /\ wifi_fail_reason' = "NONE"
          \/ /\ pc = "inspect" /\ link = -2
             /\ ret' = FALSE
             /\ net_state' = "ERROR" /\ wifi_fail_reason' = "NONET"
          \/ /\ pc = "inspect" /\ link = -3
             /\ ret' = FALSE
             /\ net_state' = "ERROR" /\ wifi_fail_reason' = "BADAUTH"
          \/ /\ pc = "inspect" /\ link = -1
             /\ ret' = FALSE
             /\ net_state' = "ERROR" /\ wifi_fail_reason' = "GENERAL"
          \/ /\ pc = "start"
             /\ ret' = FALSE
             /\ net_state' = "ERROR" /\ wifi_fail_reason' = "GENERAL"
          \/ /\ pc = "timeout" /\ waited >= ConnectTimeoutTicks
             /\ ret' = FALSE
             /\ net_state' = "ERROR" /\ wifi_fail_reason' = "TIMEOUT"
      ]_vars

\* a connect call has returned after its polling loop ran out of time
C1_Witness ==
    /\ pc = "returned" /\ op = "connect"
    /\ ~ret /\ net_state = "ERROR" /\ wifi_fail_reason = "TIMEOUT"

\* C2 (as claimed): after a connect attempt has failed with BadAuth, the
\* boot retry loop and the periodic WiFi check never start another attempt.
C2_NoAttemptAfterBadAuth ==
    [][ wifi_fail_reason = "BADAUTH" => ~(pc = "idle" /\ pc' = "start") ]_vars

\* C3 (as claimed): the automatic attempts issued after failures never
\* exceed WIFI_MAX_RETRIES.
C3_AttemptsBounded == auto_attempts <= 3

BootPcs == {"boot", "boot_cb_ret", "init", "init_ret", "boot_try", "boot_ret",
            "boot_delay", "boot_done", "boot_listen_ret"}

\* C3 (amended): the boot retry loop issues at most WIFI_MAX_RETRIES
\* attempts, and every boot attempt but the first follows the retry delay
\* taken after the failure before it.
C3_BootAttemptsBounded ==
    /\ mainpc \in BootPcs => auto_attempts <= 3
    /\ (mainpc = "boot_ret" /\ auto_attempts > 1) => retry_delayed

\* the last boot attempt is in progress, after the retry delay
C3_Witness ==
    /\ mainpc = "boot_ret" /\ auto_attempts = 3 /\ retry_delayed
    /\ pc = "inspect"

\* C4: network_connect_wifi called in Connected or Listening returns true
\* and changes nothing: no association request, and the state, the failure
\* reason, the endpoint handles, the discovered peer and the statistics
\* are as before.
C4_ConnectNoop ==
    [][ (pc = "idle" /\ op' = "connect"
           /\ net_state \in {"CONNECTED", "LISTENING"}) =>
          /\ pc' = "returned" /\ ret' = TRUE
          /\ UNCHANGED <<net_state, wifi_fail_reason, udp_listener, udp_telemetry,
                         dashboard_discovered, dashboard_addr, discovery_age,
                         net_stats>>
          /\ UNCHANGED <<link, assoc, netif_link_up, cmd_port_bound, tel_port_bound>>
      ]_vars

\* a connect call made while Listening, after packets were counted, has returned
C4_Witness ==
    /\ pc = "returned" /\ op = "connect" /\ ret
    /\ net_state = "LISTENING" /\ udp_listener
    /\ net_stats.packets_received > 0

\* C5: every call of network_connect_wifi that starts an attempt returns,
\* provided its steps are taken and time advances.
C5_ConnectReturns == (pc \in ConnectPcs) ~> (pc = "returned")

\* the polling loop has run out of time on non-terminal statuses
C5_Witness == pc = "timeout" /\ link \in {0, 1, 2}

\* C6 (as claimed): before every link-status inspection of a connect
\* attempt, the one after the loop included, the watchdog was fed and the
\* registered service callback invoked since the inspection before it.
C6_FedBeforeEveryInspect ==
    pc \in {"inspect", "timeout"} =>
        (fed_since_inspect /\ (service_callback => svc_since_inspect))

\* C6 (amended): before every link-status inspection made inside the
\* polling loop, the watchdog was fed and the service callback, if one is
\* registered, invoked since the inspection before it.
C6_FedBeforeLoopInspect ==
    pc = "inspect" => (fed_since_inspect /\ (service_callback => svc_since_inspect))

\* an iteration is about to inspect the status after feeding and servicing
C6_Witness ==
    /\ pc = "inspect" /\ service_callback
    /\ fed_since_inspect /\ svc_since_inspect
    /\ link = 2

\* C7 (as claimed): a connect call that ends in Error has issued a leave
\* request before it returns.
C7_ReleasedOnError ==
    (pc = "returned" /\ op = "connect" /\ net_state = "ERROR") => left_in_call

\* C8: network_check_connection issues no association request; it returns
\* true iff the state was Connected or Listening and the link is up; it
\* changes the state only from Connected or Listening to Disconnected, and
\* exactly when the link is not up; in Disconnected, Connecting or Error it
\* returns false and leaves the state alone.
C8_CheckConnection ==
    [][ (pc = "idle" /\ op' = "check_connection") =>
          /\ pc' = "returned"
          /\ UNCHANGED <<link, assoc>>
          /\ ret' = (net_state \in {"CONNECTED", "LISTENING"} /\ link = 3)
          /\ net_state' =
                (IF net_state \in {"CONNECTED", "LISTENING"} /\ link # 3
                 THEN "DISCONNECTED" ELSE net_state)
          /\ net_state \in {"DISCONNECTED", "CONNECTING", "ERROR"} =>
                (ret' = FALSE /\ net_state' = net_state)
      ]_vars

\* a check made while the listener was up has found the link without address
C8_Witness ==
    /\ pc = "returned" /\ op = "check_connection" /\ ~ret
    /\ net_state = "DISCONNECTED" /\ udp_listener /\ link = 2

\* C9: network_start_listener goes on to bind endpoints and to Listening
\* only when called in Connected; called in any other state it returns
\* false and leaves the state and both endpoint handles unchanged.
C9_StartListenerGuard ==
    [][ /\ (pc = "idle" /\ op' = "start_listener" /\ net_state # "CONNECTED") =>
              /\ pc' = "returned" /\ ret' = FALSE
              /\ UNCHANGED <<net_state, udp_listener, udp_telemetry,
                             cmd_port_bound, tel_port_bound>>
        /\ (pc' = "sl_commit" /\ pc # "sl_commit") =>
              (pc = "idle" /\ op' = "start_listener" /\ net_state = "CONNECTED")
        /\ (net_state' = "LISTENING" /\ net_state # "LISTENING") => pc = "sl_commit"
        /\ ((udp_listener' /\ ~udp_listener) \/ (udp_telemetry' /\ ~udp_telemetry)) =>
              (pc = "idle" /\ op' = "start_listener" /\ net_state = "CONNECTED")
      ]_vars

\* the listener was asked to start while already Listening
C9_Witness ==
    /\ pc = "returned" /\ op = "start_listener" /\ ~ret
    /\ net_state = "LISTENING" /\ udp_listener

\* C10: the decoder succeeds iff the buffer has at least 10 bytes, starts
\* with 'R','B','3','E' and has 6 at offset 5; it then returns the bytes at
\* offsets 8 and 9, whatever the other bytes are; otherwise it reports invalid.
C10_Decode ==
    cpc = "done" =>
        LET valid == /\ Len(buf) >= 10
                     /\ buf[1] = 82 /\ buf[2] = 66 /\ buf[3] = 51 /\ buf[4] = 69
                     /\ buf[6] = 6
        IN /\ parsed.ok = valid
           /\ valid => (parsed.left = buf[9] /\ parsed.right = buf[10])
           /\ ~valid => parsed = [ok |-> FALSE]

\* a packet longer than 10 bytes with a non-zero version byte was decoded
C10_Witness ==
    /\ cpc = "done" /\ parsed.ok
    /\ Len(buf) > 10 /\ buf[5] # 0 /\ parsed.left = 255 /\ parsed.right = 128

----------------------------------------------------------------------------
(* Command statistics, discovery and telemetry *)

\* C11: for every datagram on the command endpoint, with a command
\* callback registered, packets_received increases by one and exactly one
\* of packets_processed and packets_invalid increases by one, datagrams
\* shorter than 10 bytes included.
C11_CountedOnce ==
    [][ (packet_callback
           /\ net_stats'.packets_received # net_stats.packets_received) =>
          \/ /\ net_stats'.packets_processed = net_stats.packets_processed + 1
             /\ net_stats'.packets_invalid = net_stats.packets_invalid
          \/ /\ net_stats'.packets_invalid = net_stats.packets_invalid + 1
             /\ net_stats'.packets_processed = net_stats.packets_processed
      ]_vars

\* C12: no step of the module, API operation, callback or tick, decreases
\* or resets any of the statistics counters.
C12_CountersMonotone ==
    [][ \A f \in DOMAIN net_stats : net_stats'[f] >= net_stats[f] ]_vars

\* network_init has returned after the module was Listening and every kind
\* of counter had counted
C12_Witness ==
    /\ pc = "returned" /\ op = "init" /\ ret
    /\ net_state = "DISCONNECTED"
    /\ \A f \in DOMAIN net_stats : net_stats[f] > 0

\* the dashboard addresses a telemetry datagram can be broadcast to
BroadcastAddrs ==
    {LimitedBroadcast, SubnetBroadcast(netif_ip4_addr, netif_ip4_netmask)}

C14_SendExact ==
    [][ (pc = "idle" /\ op' = "send_telemetry") =>
          IF ~udp_telemetry \/ net_state # "LISTENING"
          THEN tx' = <<>>
          ELSE IF dashboard_discovered /\ discovery_age * TickMs <= DISCOVERY_TIMEOUT_MS
          THEN tx' = <<[dest |-> dashboard_addr, port |-> 21071]>>
          ELSE tx' = <<[dest |-> SubnetBroadcast(netif_ip4_addr, netif_ip4_netmask),
                        port |-> 21071],
                       [dest |-> <<255, 255, 255, 255>>, port |-> 21071]>>
      ]_vars

\* C14: a call of network_send_telemetry emits nothing unless Listening
\* with a telemetry endpoint, and nothing when the packet buffer cannot be
\* allocated; otherwise exactly one unicast datagram to the fresh
\* discovered peer, or else exactly the subnet broadcast and the limited
\* broadcast, all to the telemetry port.
C14_SendExactIfAllocated ==
    [][ (pc = "idle" /\ op' = "send_telemetry") =>
          IF ~udp_telemetry \/ net_state # "LISTENING"
          THEN tx' = <<>> /\ ~pbuf_null'
          ELSE IF pbuf_null'
          THEN tx' = <<>>
          ELSE IF dashboard_discovered /\ discovery_age * TickMs <= DISCOVERY_TIMEOUT_MS
          THEN tx' = <<[dest |-> dashboard_addr, port |-> 21071]>>
          ELSE tx' = <<[dest |-> SubnetBroadcast(netif_ip4_addr, netif_ip4_netmask),
                        port |-> 21071],
                       [dest |-> <<255, 255, 255, 255>>, port |-> 21071]>>
      ]_vars

\* a send with no discovered peer has gone to the subnet broadcast address
\* of 10.0.1.7/23 and to the limited broadcast address
C14_Witness ==
    /\ pc = "returned" /\ op = "send_telemetry"
    /\ ~dashboard_discovered
    /\ tx = <<[dest |-> <<10, 0, 1, 255>>, port |-> 21071],
              [dest |-> <<255, 255, 255, 255>>, port |-> 21071]>>

\* C15: network_dashboard_discovered never reports a peer whose latest
\* discovery message is older than the staleness window.
C15_NeverReportedStale ==
    [][ (pc = "idle" /\ op' = "dashboard_discovered" /\ ret') =>
          discovery_age * TickMs <= DISCOVERY_TIMEOUT_MS
      ]_vars

----------------------------------------------------------------------------
(* DHCP server *)

\* the message type option of a reply
TypeOf(msg) == ScanOptions(msg.options, 1, 0)

\* dhcp_recv_cb has just handled a datagram
DhcpHandled == dhcp_msg = <<>> /\ dhcp_msg' # <<>>

\* C16: once an ACK for a lease index was built for a MAC, every reply to
\* a later DISCOVER or REQUEST from that MAC carries the same index, and
\* the slot stays the MAC's, until dhcp_server_init clears the table.
C16_AckedIndexStable ==
    [][ DhcpHandled =>
          LET mac == MacOf(dhcp_msg'[1].chaddr)
          IN (acked[mac] >= 0) =>
                /\ leases'[acked[mac]] = [mac |-> mac, expiry |-> 1]
                /\ dhcp_reply' # <<>> =>
                      dhcp_reply'[1].yiaddr[4] = DHCPS_BASE_IP + acked[mac]
      ]_vars

\* a client ACKed index 0 sends DISCOVER after two other clients were
\* given leases, and is OFFERed index 0
C16_Witness ==
    /\ dhcp_msg # <<>> /\ dhcp_reply # <<>>
    /\ TypeOf(dhcp_msg[1]) = 1
    /\ acked[MacOf(dhcp_msg[1].chaddr)] = 0
    /\ leases[1].expiry = 1 /\ leases[2].expiry = 1
    /\ dhcp_reply[1].yiaddr[4] = 100

\* C17: the index ACKed for a client's REQUEST is the index OFFERed for
\* that client's preceding DISCOVER, whatever DISCOVER and REQUEST messages
\* of other clients are handled in between.
C17_RequestGetsOfferedIndex ==
    [][ (DhcpHandled /\ dhcp_reply' # <<>>
           /\ MacOf(dhcp_msg'[1].chaddr) = WatchedMac
           /\ TypeOf(dhcp_reply'[1]) = 5
           /\ offered >= 0) =>
          dhcp_reply'[1].yiaddr[4] = DHCPS_BASE_IP + offered
      ]_vars

\* C18: a MAC with no matching lease entry is given the lowest-index slot
\* whose expiry is 0; an ACK marks that slot in use for the MAC.
C18_LowestFreeSlot ==
    [][ (DhcpHandled /\ dhcp_reply' # <<>>
           /\ \A i \in LeaseIndices : leases[i].mac # MacOf(dhcp_msg'[1].chaddr)) =>
          \E i \in LeaseIndices :
             /\ leases[i].expiry = 0
             /\ \A j \in LeaseIndices : j < i => leases[j].expiry # 0
             /\ dhcp_reply'[1].yiaddr = <<d.ip[1], d.ip[2], d.ip[3], 100 + i>>
             /\ TypeOf(dhcp_reply'[1]) = 5 =>
                   leases'[i] = [mac |-> MacOf(dhcp_msg'[1].chaddr), expiry |-> 1]
      ]_vars

\* after the first client was ACKed base+0, which marked slot 0 in use, a
\* second, distinct client sends DISCOVER and is OFFERed base+1
C18_Witness ==
    /\ dhcp_msg # <<>> /\ dhcp_reply # <<>>
    /\ leases[0].expiry = 1
    /\ acked[leases[0].mac] = 0
    /\ \A i \in 1..4 : leases[i].expiry = 0
    /\ MacOf(dhcp_msg[1].chaddr) # leases[0].mac
    /\ TypeOf(dhcp_msg[1]) = 1
    /\ TypeOf(dhcp_reply[1]) = 2
    /\ dhcp_reply[1].yiaddr = <<192, 168, 4, 101>>

\* every lease slot is in use by a MAC other than mac
PoolFullFor(mac) ==
    \A i \in LeaseIndices : leases[i].expiry # 0 /\ leases[i].mac # mac

\* C19: with all 5 slots in use by other MACs, a datagram from a further
\* MAC gets no reply and leaves the lease table as it is.
C19_PoolExhausted ==
    [][ (DhcpHandled /\ PoolFullFor(MacOf(dhcp_msg'[1].chaddr))) =>
          dhcp_reply' = <<>> /\ leases' = leases
      ]_vars

\* a well-formed DISCOVER or REQUEST of a sixth client was handled with the
\* pool full
C19_Witness ==
    /\ dhcp_msg # <<>>
    /\ dhcp_msg[1].len_ok /\ dhcp_msg[1].op = 1 /\ dhcp_msg[1].htype = 1
    /\ dhcp_msg[1].hlen = 6 /\ dhcp_msg[1].magic = 1669485411
    /\ TypeOf(dhcp_msg[1]) \in {1, 3}
    /\ PoolFullFor(MacOf(dhcp_msg[1].chaddr))
    /\ dhcp_reply = <<>>

\* C20: every reply has op = REPLY, the xid and chaddr of its request,
\* siaddr the server's address, yiaddr the server's first three octets
\* followed by 100 + lease index, type OFFER for a DISCOVER and ACK for a
\* REQUEST, and goes to 255.255.255.255, port 68.
C20_ReplyFields ==
    dhcp_reply # <<>> =>
        LET r == dhcp_reply[1]
            m == dhcp_msg[1]
        IN /\ r.op = 2
           /\ r.xid = m.xid
           /\ r.chaddr = m.chaddr
           /\ r.siaddr = d.ip
           /\ SubSeq(r.yiaddr, 1, 3) = SubSeq(d.ip, 1, 3)
           /\ r.yiaddr[4] \in 100..104
           /\ r.yiaddr[4] = 100 + dhcp_find_ip(leases, MacOf(m.chaddr))
           /\ TypeOf(m) \in {1, 3}
           /\ TypeOf(r) = 2 <=> TypeOf(m) = 1
           /\ TypeOf(r) = 5 <=> TypeOf(m) = 3
           /\ r.dest = <<255, 255, 255, 255>>
           /\ r.port = 68

\* a REQUEST whose options start with padding and a requested address was
\* ACKed base+1 by the server at 192.168.4.1
C20_Witness ==
    /\ dhcp_reply # <<>>
    /\ dhcp_msg[1].options[1] = 0
    /\ TypeOf(dhcp_reply[1]) = 5
    /\ dhcp_reply[1].yiaddr = <<192, 168, 4, 101>>
    /\ dhcp_reply[1].siaddr = <<192, 168, 4, 1>>
    /\ dhcp_reply[1].xid = 1001

\* C21: a datagram on the server port that is too short, or whose op is not
\* 1, htype not 1, hlen not 6 or magic cookie not 0x63825363, or whose options
\* carry no message type DISCOVER or REQUEST, gets no reply and leaves the
\* lease table as it was.
C21_InvalidIgnored ==
    [][ (DhcpHandled /\
            (\/ ~dhcp_msg'[1].len_ok
             \/ dhcp_msg'[1].op # 1
             \/ dhcp_msg'[1].htype # 1
             \/ dhcp_msg'[1].hlen # 6
             \/ dhcp_msg'[1].magic # 1669485411
             \/ TypeOf(dhcp_msg'[1]) \notin {1, 3}))
        => (dhcp_reply' = <<>> /\ leases' = leases) ]_vars

\* a REQUEST with a wrong magic cookie was dropped while the pool had both a
\* used and a free slot
C21_Witness ==
    /\ dhcp_msg # <<>>
    /\ dhcp_msg[1].magic = 0
    /\ dhcp_msg[1].options = <<53, 1, 3, 255>>
    /\ dhcp_reply = <<>>
    /\ leases[0].expiry = 1
    /\ leases[1].expiry = 0

\* C22: the lease table changes in dhcp_recv_cb only when an ACK for a
\* REQUEST is sent, and then exactly one slot becomes the client's, in use;
\* a DISCOVER leaves the table unchanged; a slot in use becomes free only
\* when the whole table is cleared outside dhcp_recv_cb.
C22_TableWrittenOnAck ==
    [][ /\ (DhcpHandled /\ leases' # leases) =>
              /\ TypeOf(dhcp_msg'[1]) = 3
              /\ dhcp_reply' # <<>>
              /\ TypeOf(dhcp_reply'[1]) = 5
              /\ \E i \in LeaseIndices :
                    leases' = [leases EXCEPT
                                 ![i] = [mac |-> MacOf(dhcp_msg'[1].chaddr),
                                         expiry |-> 1]]
        /\ (DhcpHandled /\ TypeOf(dhcp_msg'[1]) = 1) => leases' = leases
        /\ \A i \in LeaseIndices :
              (leases[i].expiry # 0 /\ leases'[i].expiry = 0)
                  => (~DhcpHandled /\ leases' = NoLeases) ]_vars

\* C23: for every valid-header datagram the option scan reads only offsets
\* inside the datagram: no option byte at an offset beyond the last byte
\* the datagram's length covers.
C23_ScanInBounds ==
    (dhcp_msg # <<>> /\ DhcpValid(dhcp_msg[1])) =>
        \A o \in ScanReads(dhcp_msg[1].options, 1) :
            o <= Len(dhcp_msg[1].options)

\* C24: the options of every reply are, in this order, message type (53),
\* server identifier (54), lease time (51) of 86400 seconds in network byte
\* order, subnet mask (1), router (3) and DNS (6) both the server's
\* address, and END (255), each as code, length, value.
C24_ReplyOptions ==
    dhcp_reply # <<>> =>
        /\ dhcp_reply[1].options =
              <<53, 1, dhcp_reply[1].options[3]>>
              \o <<54, 4>> \o d.ip
              \o <<51, 4, 0, 1, 81, 128>>
              \o <<1, 4>> \o d.nm
              \o <<3, 4>> \o d.ip
              \o <<6, 4>> \o d.ip
              \o <<255>>
        /\ dhcp_reply[1].options[3] \in {2, 5}
        /\ Len(d.ip) = 4 /\ Len(d.nm) = 4
        /\ 0 * 16777216 + 1 * 65536 + 81 * 256 + 128 = 24 * 60 * 60

\* an OFFER of the server at 192.168.4.1/24 with its 31 option bytes
C24_Witness ==
    /\ dhcp_reply # <<>>
    /\ dhcp_reply[1].options =
          <<53, 1, 2, 54, 4, 192, 168, 4, 1, 51, 4, 0, 1, 81, 128,
            1, 4, 255, 255, 255, 0, 3, 4, 192, 168, 4, 1,
            6, 4, 192, 168, 4, 1, 255>>

\* C25: every change of net_state follows the state diagram: Connecting is
\* entered only inside network_connect_wifi from Disconnected or Error,
\* Connected only from Connecting or Listening, Listening only from
\* Connected, Error only from Connecting, and Disconnected only from
\* Connected.
C25_StateDiagram ==
    [][ net_state' # net_state =>
          \/ /\ net_state' = NETWORK_STATE_CONNECTING
             /\ net_state \in {NETWORK_STATE_DISCONNECTED, NETWORK_STATE_ERROR}
             /\ op' = "connect"
          \/ /\ net_state' = NETWORK_STATE_CONNECTED
             /\ net_state \in {NETWORK_STATE_CONNECTING, NETWORK_STATE_LISTENING}
          \/ /\ net_state' = NETWORK_STATE_LISTENING
             /\ net_state = NETWORK_STATE_CONNECTED
          \/ /\ net_state' = NETWORK_STATE_ERROR
             /\ net_state = NETWORK_STATE_CONNECTING
          \/ /\ net_state' = NETWORK_STATE_DISCONNECTED
             /\ net_state = NETWORK_STATE_CONNECTED ]_vars

\* C26: when network_disconnect returns, net_state is Disconnected, both
\* endpoint handles are absent, no command callback is registered and no
\* peer is recorded; network_connect_wifi called in that state starts an
\* attempt: state Connecting, failure reason cleared.
C26_DisconnectClears ==
    [][ /\ (pc # "returned" /\ pc' = "returned" /\ op' = "disconnect") =>
              /\ net_state' = NETWORK_STATE_DISCONNECTED
              /\ ~udp_listener' /\ ~udp_telemetry'
              /\ ~packet_callback'
              /\ ~dashboard_discovered'
        /\ (pc = "idle" /\ op' = "connect"
                /\ net_state = NETWORK_STATE_DISCONNECTED) =>
              /\ net_state' = NETWORK_STATE_CONNECTING
              /\ wifi_fail_reason' = WIFI_FAIL_NONE
              /\ pc' = "start" ]_vars

\* network_disconnect has returned after commands and discovery messages
\* had been received: the peer's address is still stored but not discovered
C26_Witness ==
    /\ pc = "returned" /\ op = "disconnect"
    /\ net_state = "DISCONNECTED"
    /\ net_stats.discovery_received > 0
    /\ net_stats.packets_received > 0
    /\ dashboard_addr \in Peers
    /\ ~dashboard_discovered

\* C27: a call of network_start_listener in state Connected that fails
\* returns false, leaves net_state Connected and leaves neither endpoint
\* handle set; one that succeeds returns true in state Listening, with or
\* without a telemetry endpoint; a telemetry send made while the telemetry
\* handle is absent emits nothing.
C27_StartFailures ==
    [][ /\ (pc = "idle" /\ op' = "start_listener" /\ pc' = "returned"
                /\ net_state = NETWORK_STATE_CONNECTED) =>
              /\ ~ret'
              /\ net_state' = NETWORK_STATE_CONNECTED
              /\ ~udp_listener' /\ ~udp_telemetry'
        /\ (pc = "sl_commit" /\ pc' = "returned") =>
              /\ ret'
              /\ net_state' = NETWORK_STATE_LISTENING
              /\ udp_listener'
        /\ (pc = "idle" /\ op' = "send_telemetry" /\ ~udp_telemetry) =>
              tx' = <<>> ]_vars

\* C28: a call of network_send_telemetry changes no counter but
\* telemetry_sent, raises it by at most one, and raises it only if the call
\* handed at least one datagram to udp_sendto and every udp_sendto of the
\* call returned ERR_OK; no destination is tried twice in a call.
C28_SentOnlyIfAllOk ==
    [][ (pc = "idle" /\ op' = "send_telemetry") =>
          /\ net_stats' = [net_stats EXCEPT
                             !.telemetry_sent = net_stats'.telemetry_sent]
          /\ net_stats'.telemetry_sent \in
                {net_stats.telemetry_sent, net_stats.telemetry_sent + 1}
          /\ net_stats'.telemetry_sent # net_stats.telemetry_sent =>
                /\ tx' # <<>>
                /\ \A i \in 1..Len(tx_err') : tx_err'[i]
          /\ \A i, j \in 1..Len(tx') : tx'[i] = tx'[j] => i = j ]_vars

\* the bytes m occur in p at some position
Contains(p, m) ==
    \E i \in 1..(Len(p) - Len(m) + 1) : SubSeq(p, i, i + Len(m) - 1) = m

\* "type":"discovery" and "type": "discovery"
MarkerBytes(space) ==
    <<"\"", "t", "y", "p", "e", "\"", ":">> \o (IF space THEN <<" ">> ELSE <<>>)
    \o <<"\"", "d", "i", "s", "c", "o", "v", "e", "r", "y", "\"">>

\* C30: a datagram on the telemetry endpoint with 1 to 255 bytes that
\* contains "type":"discovery" or "type": "discovery" at some position
\* makes its sender the discovered peer, refreshes the timestamp and adds
\* one to discovery_received; any other datagram leaves the peer record
\* and the counters unchanged.
C30_DiscoveryRecognised ==
    [][ (rx = <<>> /\ rx' # <<>>) =>
          IF /\ Len(rx'[1].payload) \in 1..255
             /\ \/ Contains(rx'[1].payload, MarkerBytes(FALSE))
                \/ Contains(rx'[1].payload, MarkerBytes(TRUE))
          THEN /\ dashboard_discovered'
               /\ dashboard_addr' = rx'[1].addr
               /\ discovery_age' = 0
               /\ net_stats' =
                     [net_stats EXCEPT
                        !.discovery_received = Min(@ + 1, MaxStat)]
          ELSE UNCHANGED <<dashboard_discovered, dashboard_addr,
                           discovery_age, net_stats>> ]_vars

\* a 255-byte datagram that ends with the marker was recognised
C30_Witness ==
    /\ rx # <<>>
    /\ Len(rx[1].payload) = 255
    /\ rx[1].payload[255] = "\""
    /\ rx[1].payload[1] = " "
    /\ dashboard_discovered
    /\ dashboard_addr = rx[1].addr
    /\ discovery_age = 0
    /\ net_stats.discovery_received = 1

\* C29: every statement of a main-loop operation that assigns an endpoint
\* handle or the discovered-peer record, and every udp_new, udp_bind,
\* udp_remove and udp_sendto, is executed between cyw43_arch_lwip_begin and
\* cyw43_arch_lwip_end.
C29_LockHeld ==
    (\/ lk_event.var \in {"udp_listener", "udp_telemetry", "dashboard_discovered"}
     \/ lk_event.ev \in {"udp_new", "udp_bind", "udp_remove", "udp_sendto"})
        => lwip_locked

\* C31: when a periodic WiFi check of the main loop ends, wifi_is_connected
\* is true iff network_wifi_connected() holds (net_state is Connected or
\* Listening), so the heartbeat interval chosen from the flag is the slow
\* one exactly when WiFi is connected.
C31_HeartbeatReflectsState ==
    [][ (/\ mainpc \in {"wc_check_ret", "wc_reconnect_ret", "wc_connect_ret",
                        "wc_listen_ret"}
         /\ mainpc' = "loop")
        => (wifi_is_connected' <=> network_wifi_connected') ]_vars

\* C32: a link-down notification is not lost: net_state, once Disconnected,
\* stays Disconnected until a call of network_connect_wifi is made, also
\* when the notification arrived while network_start_listener,
\* network_stop_listener or network_connect_wifi was in progress.
C32_LinkDownKept ==
    [][ (/\ net_state = NETWORK_STATE_DISCONNECTED
         /\ net_state' # NETWORK_STATE_DISCONNECTED)
        => (pc = "idle" /\ op' = "connect") ]_vars

\* C33: a peer recorded by udp_telemetry_callback while
\* network_send_telemetry was in progress, and not older than the discovery
\* timeout, is still recorded as discovered when the send returns.
C33_DiscoveryKept ==
    (/\ pc = "returned"
     /\ op = "send_telemetry"
     /\ lk_refreshed
     /\ ~DiscoveryStale)
        => dashboard_discovered

\* C34: between API calls the failure reason agrees with the state: in
\* state Error it is Timeout, NoNetwork, BadAuth or General, and in state
\* Connected or Listening it is None.
C34_FailReasonConsistent ==
    pc = "idle" =>
        /\ net_state = NETWORK_STATE_ERROR
              => wifi_fail_reason \in {WIFI_FAIL_TIMEOUT, WIFI_FAIL_NONET,
                                       WIFI_FAIL_BADAUTH, WIFI_FAIL_GENERAL}
        /\ net_state \in {NETWORK_STATE_CONNECTED, NETWORK_STATE_LISTENING}
              => wifi_fail_reason = WIFI_FAIL_NONE

\* a failed attempt has returned and its result has been taken
C34_Witness ==
    /\ pc = "idle"
    /\ net_state = NETWORK_STATE_ERROR
    /\ wifi_fail_reason = WIFI_FAIL_BADAUTH
    /\ op = "none"

\* C35: between API calls the command endpoint exists exactly in state
\* Listening: in Listening the handle udp_listener is set, and in every
\* other state no handle is set and no endpoint is bound to the command
\* port.
C35_EndpointIffListening ==
    pc = "idle" =>
        IF net_state = NETWORK_STATE_LISTENING
        THEN udp_listener
        ELSE ~udp_listener /\ ~cmd_port_bound

\* C36: if from some point on the link to the access point stays up and no
\* connection attempt fails, the firmware is in state Listening again and
\* again, whatever happened before that point.
C36_EventuallyListening ==
    <>[](/\ link = CYW43_LINK_UP
         /\ netif_link_up
         /\ net_state # NETWORK_STATE_ERROR)
        => []<>(net_state = NETWORK_STATE_LISTENING)

\* C37: no two lease slots in use hold the same MAC, and a reply never
\* carries an address whose slot was ACKed to a different MAC since the
\* last dhcp_server_init.
C37_LeaseUnique ==
    /\ [](\A i \in LeaseIndices : \A j \in LeaseIndices :
            (i # j /\ leases[i].expiry # 0 /\ leases[j].expiry # 0)
                => leases[i].mac # leases[j].mac)
    /\ [][ (DhcpHandled /\ dhcp_reply' # <<>>) =>
             \A m \in ClientMacs :
                (m # MacOf(dhcp_msg'[1].chaddr) /\ acked[m] >= 0)
                    => dhcp_reply'[1].yiaddr[4] # DHCPS_BASE_IP + acked[m]
         ]_vars

\* two clients hold leases and one of them, ACKed before, is answered again
C37_Witness ==
    /\ dhcp_msg # <<>> /\ dhcp_reply # <<>>
    /\ leases[0].expiry = 1 /\ leases[1].expiry = 1
    /\ acked[MacOf(dhcp_msg[1].chaddr)] = 1
    /\ TypeOf(dhcp_reply[1]) = 5
    /\ dhcp_reply[1].yiaddr[4] = DHCPS_BASE_IP + 1

\* C38: while the watched client holds an OFFER and its REQUEST has not
\* been answered with an ACK, no OFFER to a different MAC carries the
\* address of that OFFER.
C38_OfferExclusive ==
    [][ (/\ DhcpHandled
         /\ dhcp_reply' # <<>>
         /\ TypeOf(dhcp_reply'[1]) = DHCP_OFFER
         /\ MacOf(dhcp_msg'[1].chaddr) # WatchedMac
         /\ offered >= 0
         /\ acked[WatchedMac] < 0)
        => dhcp_reply'[1].yiaddr[4] # DHCPS_BASE_IP + offered ]_vars

\* the (left, right) pairs of the valid command packets
ValidPairs ==
    { <<rb3e_parse_stagekit(p, Len(p)).left, rb3e_parse_stagekit(p, Len(p)).right>> :
        p \in {q \in CommandPackets : Len(q) >= 10 /\ rb3e_parse_stagekit(q, Len(q)).ok} }

\* C39: the pair the main loop gives to the peripheral is the pair of one
\* valid command packet, the last one received before the loop cleared the
\* pending flag; and a command received since the flag was cleared is
\* still pending, with its own pair.
C39_PairFromOnePacket ==
    /\ (cmdpc = "M406" /\ usb_out # NoCmd)
          => (usb_out = taken /\ usb_out \in ValidPairs)
    /\ unread
          => /\ stagekit_command_pending
             /\ <<pending_left_weight, pending_right_weight>> = latest

\* one command was given to the peripheral while a different one, received
\* after the read, is pending
C39_Witness ==
    /\ cmdpc = "M406"
    /\ usb_out = <<1, 128>>
    /\ unread
    /\ latest = <<255, 32>>
    /\ stagekit_command_pending

\* C40: an iteration of the main loop that finds lights_active set and the
\* last consumed command older than SAFETY_TIMEOUT_MS gives the all-off
\* command to the peripheral if it is connected and clears lights_active;
\* all-off is given only then, lights_active is set only when a command is
\* forwarded, and no iteration ends with lights_active set after the
\* timeout.
C40_SafetyTimeout ==
    /\ [][ (cmdpc = "M406" /\ cmdpc' = "M349") =>
             IF lights_active /\ since_packet * TickMs > SAFETY_TIMEOUT_MS
             THEN /\ ~lights_active'
                  /\ usb_up => usb_out' = <<0, SK_ALL_OFF>>
             ELSE /\ lights_active' = lights_active
                  /\ usb_out' = usb_out ]_vars
    /\ [][ (usb_out' = <<0, SK_ALL_OFF>> /\ usb_out # usb_out')
             => (lights_active /\ ~lights_active') ]_vars
    /\ [][ (lights_active' /\ ~lights_active)
             => (cmdpc = "M371" /\ usb_out' = <<cmd_left, cmd_right>>) ]_vars
    /\ [](cmdpc = "M349" =>
             ~(lights_active /\ since_packet * TickMs > SAFETY_TIMEOUT_MS))

\* the timeout has passed with the peripheral connected: all-off was given
\* and lights_active is clear
C40_Witness ==
    /\ cmdpc = "M349"
    /\ usb_out = <<0, SK_ALL_OFF>>
    /\ ~lights_active
    /\ since_packet > 0
    /\ latest # NoCmd
====
